---- MODULE Spec2Model ----
(***************************************************************************)
(* A model of the moderation engine of foden303/moderation: the text       *)
(* pipeline of TextModerator (normalizer, Bloom prefilter, Aho-Corasick    *)
(* matcher, two cache layers, classifier fallback, writeback), the Bloom    *)
(* filter on the KV store, and the verdict synthesis of ModerationUsecase.  *)
(*                                                                         *)
(* Scores are percentages (0.85 is 85).  A code point is a one-element      *)
(* name ("a", "B", "4", "@", " ", "aacute" for U+00E1, "cmb" for the        *)
(* combining acute accent U+0301); a text is a sequence of code points.     *)
(***************************************************************************)
EXTENDS Integers, Sequences, FiniteSets, TLC

VARIABLES bloom, added, acPatterns, l1, l2, calls, nCalls, clsMemo,
          feedbackCallback, uc, nReq,
          acMu, acRoot, tries, build, search, nBuilds, nSearches,
          nz,
          imgBloom, badImages, img, nImg,
          jobs, results, workers, producer, ctxDone,
          tmMu, admin, fbTasks,
          nsfwTextClient, lk

\* The text pipeline and the usecase.
textVars == <<bloom, added, acPatterns, l1, l2, calls, nCalls, clsMemo,
              feedbackCallback, uc, nReq>>

\* filter.AhoCorasick under concurrent Build, Search and HasMatch.
acVars == <<acMu, acRoot, tries, build, search, nBuilds, nSearches>>

\* LocalImageModerator.ModerateImageURL and its stores.
imgVars == <<imgBloom, badImages, img, nImg>>

\* The worker pool of LocalImageModerator.ModerateImageURLs.
poolVars == <<jobs, results, workers, producer, ctxDone>>

\* TextModerator.mu and the admin goroutine of ModerationUsecase.
adminVars == <<tmMu, admin>>

\* Whether a text classifier is configured, and the goroutines of the
\* text path at their lock operations.
setupVars == <<nsfwTextClient, lk>>

\* The filter, the normalizer, the image moderator, the pool, and what is
\* set up besides.
sideVars == <<acVars, nz, imgVars, poolVars, setupVars>>

\* What the steps of Moderate other than the classifier step, and the
\* usecase, leave alone.
auxVars == <<sideVars, adminVars, fbTasks>>

vars == <<textVars, auxVars>>

(***************************************************************************)
(* Bounds of the model.                                                    *)
(***************************************************************************)
\* Bit length m of the text Bloom filter (the program's default is 8M bits).
BloomBits == 8
\* Number k of hash functions of the text Bloom filter (the default is 5).
BloomHashFunctions == 2
\* Moderate calls one caller starts in one behaviour.
MaxCalls == 2
\* Moderate calls two racing callers start in one behaviour.
MaxRaceCalls == 3
\* Image URLs and video URLs of one ModerationUsecase.Moderate request.
MaxUrls == 2
\* ModerationUsecase.Moderate requests in one behaviour.
MaxReq == 2
\* AhoCorasick.Build calls in one behaviour.
MaxBuilds == 2
\* Search and HasMatch calls in one behaviour.
MaxSearches == 2
\* Calls in one behaviour of the admin beside a caller of Moderate, the
\* Moderate calls counted with the admin's.
MaxAdminOps == 3
\* Moderate calls beside the feedback goroutines in one behaviour.
MaxFeedbackCalls == 2
\* Moderate calls in one behaviour with a classifier that may be missing.
MaxClassifierCalls == 2

\* Calls made in one behaviour at the locks of the text path.
MaxLockOps == 3
\* Code points of a text given to NormalizeText.
MaxLen == 3
\* ModerateImageURL calls in one behaviour.
MaxImageCalls == 3
\* URLs of one ModerateImageURLs call.
MaxPoolUrls == 3
\* Largest configured worker count (config.Workers) of the pool.
MaxWorkers == 2

(***************************************************************************)
(* Program constants.                                                      *)
(***************************************************************************)
RejectThreshold == 85
ReviewThreshold == 50
\* DefaultImageModeratorConfig().NSFWThreshold
NSFWThreshold == 70
\* The worker count ModerateImageURLs falls back to.
FallbackWorkers == 4

\* The concurrent callers of TextModerator.Moderate.
Callers == {1, 2}

(***************************************************************************)
(* Sequence helpers.                                                       *)
(***************************************************************************)
RECURSIVE Flatten(_)
Flatten(ss) == IF ss = <<>> THEN <<>> ELSE Head(ss) \o Flatten(Tail(ss))

MapSeq(f(_), s) == [i \in 1..Len(s) |-> f(s[i])]

Range(s) == {s[i] : i \in 1..Len(s)}

\* p occurs in s starting at index i (1-based).
OccursAt(p, s, i) ==
    /\ i >= 1
    /\ i + Len(p) - 1 <= Len(s)
    /\ \A j \in 1..Len(p) : s[i + j - 1] = p[j]

Contains(s, p) == \E i \in 1..(Len(s) + 1) : OccursAt(p, s, i)

(***************************************************************************)
(* filter.NormalizeText: NFD, strip combining marks (Mn), NFC, lowercase,  *)
(* leet map.                                                               *)
(***************************************************************************)
\* norm.NFD on one code point.
Decompose(ch) == IF ch = "aacute" THEN <<"a", "cmb">> ELSE <<ch>>

\* runes.In(unicode.Mn)
IsMn(ch) == ch = "cmb"

NFD(text) == Flatten(MapSeq(Decompose, text))

RemoveMn(text) == SelectSeq(text, LAMBDA ch : ~IsMn(ch))

\* norm.NFC: a base letter followed by its combining mark is recomposed.
RECURSIVE NFC(_)
NFC(text) ==
    IF Len(text) < 2 THEN text
    ELSE IF text[1] = "a" /\ text[2] = "cmb"
         THEN <<"aacute">> \o NFC(SubSeq(text, 3, Len(text)))
         ELSE <<text[1]>> \o NFC(Tail(text))

\* unicode.ToLower
ToLower(ch) ==
    CASE ch = "A" -> "a"
      [] ch = "B" -> "b"
      [] ch = "X" -> "x"
      [] OTHER -> ch

\* A leet map one of whose substitutes is itself a key of the map.
LeetChained(ch) ==
    CASE ch = "$" -> "4"
      [] ch = "4" -> "a"
      [] ch = "@" -> "a"
      [] ch = "8" -> "b"
      [] OTHER -> ch

\* leetMap of NormalizeText
Leet(ch) ==
    CASE ch = "0" -> "o"
      [] ch = "1" -> "i"
      [] ch = "3" -> "e"
      [] ch = "4" -> "a"
      [] ch = "5" -> "s"
      [] ch = "7" -> "t"
      [] ch = "8" -> "b"
      [] ch = "@" -> "a"
      [] ch = "$" -> "s"
      [] OTHER -> ch

NormalizeText(text) ==
    MapSeq(Leet, MapSeq(ToLower, NFC(RemoveMn(NFD(text)))))

(***************************************************************************)
(* moderator.tokenize / isWordChar                                         *)
(***************************************************************************)
\* ASCII letters, digits, underscore, and every code point >= U+0080.
isWordChar(ch) ==
    ch \in {"a", "b", "x", "A", "B", "X", "0", "1", "3", "4", "5", "7", "8",
            "_", "aacute", "cmb"}

\* The run of word characters at the front of text.
RECURSIVE WordPrefix(_)
WordPrefix(text) ==
    IF text = <<>> \/ ~isWordChar(Head(text)) THEN <<>>
    ELSE <<Head(text)>> \o WordPrefix(Tail(text))

RECURSIVE tokenize(_)
tokenize(text) ==
    IF text = <<>> THEN <<>>
    ELSE IF ~isWordChar(Head(text)) THEN tokenize(Tail(text))
    ELSE LET w == WordPrefix(text)
         IN <<w>> \o tokenize(SubSeq(text, Len(w) + 1, Len(text)))

(***************************************************************************)
(* package hash.  SHA-256 and xxhash64 are modelled as collision-free on   *)
(* the texts of the model: a digest is the pair of the algorithm and the   *)
(* hashed string, so digests of different algorithms never coincide.       *)
(***************************************************************************)
HashTextSha256(s) == <<"sha256", s>>

FastHash(s) == <<"xxh64", s>>

\* A numeric code of a code point and of a string, input of the murmur model.
CharCode(ch) ==
    CASE ch = "a" -> 1
      [] ch = "b" -> 2
      [] ch = "x" -> 3
      [] ch = " " -> 4
      [] OTHER -> 5

RECURSIVE StrCode(_)
StrCode(s) == IF s = <<>> THEN 7 ELSE (StrCode(Tail(s)) * 5 + CharCode(Head(s))) % 1024

\* hash.Hash (murmur3.Sum64) of the digest bytes followed by the byte i.
Hash(data, i) ==
    (StrCode(data[2]) * 3 + (IF data[1] = "sha256" THEN 0 ELSE 1) + 7 * i * i + 3 * i) % 4096

(***************************************************************************)
(* package bloom                                                           *)
(***************************************************************************)
\* Filter.getLocations
getLocations(data) ==
    {Hash(data, i) % BloomBits : i \in 0..(BloomHashFunctions - 1)}

\* A set script that stops after the first offset.
BitSetSetFirstOnly(bits, offsets) ==
    IF offsets = {} THEN bits
    ELSE bits \cup {CHOOSE o \in offsets : \A q \in offsets : o <= q}

\* redisBitSet.set through the set script: all offsets are set atomically.
BitSetSet(bits, offsets) == bits \cup offsets

\* redisBitSet.check through the get script: 1 iff every offset is set.
BitSetCheck(bits, offsets) == offsets \subseteq bits

\* Filter.ExistsWithCtx on a store that answers.
Exists(bits, data) == BitSetCheck(bits, getLocations(data))

(***************************************************************************)
(* filter.AhoCorasick.  A trie node is named by the path that leads to it  *)
(* (a prefix of a normalized pattern); the root is the empty path.  The    *)
(* automaton is a function of the pattern list given to Build.             *)
(***************************************************************************)
NilNode == <<"nil">>

Prefixes(s) == {SubSeq(s, 1, n) : n \in 0..Len(s)}

\* The nodes addPattern creates for the patterns of Build.
TrieNodes(patterns) ==
    {<<>>} \cup UNION {Prefixes(NormalizeText(patterns[i].word)) : i \in 1..Len(patterns)}

\* node.children[char] != nil
HasChild(patterns, node, ch) ==
    node # NilNode /\ Append(node, ch) \in TrieNodes(patterns)

\* The loop of buildFailLinks and of Search: follow fail links from node
\* until a node with a child for ch is found, or nil.
RECURSIVE failLink(_, _), FollowFail(_, _, _)
FollowFail(patterns, node, ch) ==
    IF node = NilNode \/ HasChild(patterns, node, ch) THEN node
    ELSE FollowFail(patterns, failLink(patterns, node), ch)

\* ahoCorasickNode.failLink as buildFailLinks sets it (nil at the root).
failLink(patterns, node) ==
    IF node = <<>> THEN NilNode
    ELSE IF Len(node) = 1 THEN <<>>
    ELSE LET cur == SubSeq(node, 1, Len(node) - 1)
             ch == node[Len(node)]
             failNode == FollowFail(patterns, failLink(patterns, cur), ch)
         IN IF failNode = NilNode THEN <<>> ELSE Append(failNode, ch)

\* The patterns addPattern appends to node.output.
OwnOutput(patterns, node) ==
    SelectSeq(patterns, LAMBDA p : NormalizeText(p.word) = node)

\* ahoCorasickNode.output after buildFailLinks merged the fail link's output.
RECURSIVE NodeOutput(_, _)
NodeOutput(patterns, node) ==
    IF Len(node) <= 1 THEN OwnOutput(patterns, node)
    ELSE LET cur == SubSeq(node, 1, Len(node) - 1)
             ch == node[Len(node)]
             failNode == FollowFail(patterns, failLink(patterns, cur), ch)
         IN IF failNode = NilNode THEN OwnOutput(patterns, node)
            ELSE OwnOutput(patterns, node)
                     \o NodeOutput(patterns, Append(failNode, ch))

\* One iteration of the loop of Search: the node reached on ch.
Goto(patterns, node, ch) ==
    LET n == FollowFail(patterns, node, ch)
    IN IF n = NilNode THEN <<>> ELSE Append(n, ch)

\* The matches Search appends at one position.
MatchesAt(patterns, node, position) ==
    MapSeq(LAMBDA p : [word |-> p.word,
                       position |-> position - Len(p.word) + 1,
                       category |-> p.category,
                       nsfwScore |-> p.nsfwScore],
           NodeOutput(patterns, node))

RECURSIVE SearchFrom(_, _, _, _)
SearchFrom(patterns, node, rest, position) ==
    IF rest = <<>> THEN <<>>
    ELSE LET next == Goto(patterns, node, Head(rest))
         IN MatchesAt(patterns, next, position)
                \o SearchFrom(patterns, next, Tail(rest), position + 1)

\* AhoCorasick.Search
Search(patterns, text) == SearchFrom(patterns, <<>>, NormalizeText(text), 0)

\* AhoCorasick.HasMatch: true at the first node with a non-empty output.
RECURSIVE HasMatchFrom(_, _, _)
HasMatchFrom(patterns, node, rest) ==
    IF rest = <<>> THEN FALSE
    ELSE LET next == Goto(patterns, node, Head(rest))
         IN \/ Len(NodeOutput(patterns, next)) > 0
            \/ HasMatchFrom(patterns, next, Tail(rest))

HasMatch(patterns, text) == HasMatchFrom(patterns, <<>>, NormalizeText(text))

(***************************************************************************)
(* filter.AhoCorasick as a shared object.  ac.root designates one of the   *)
(* tries ever allocated (tries[g], g counting the allocations); a trie is  *)
(* the list of the patterns addPattern has inserted so far and whether     *)
(* buildFailLinks has run on it (field complete: its construction has      *)
(* ended).  A search holds a node of one trie: the trie and the path.      *)
(***************************************************************************)
\* newAhoCorasickNode() as a root: no children, no fail link, no output.
EmptyTrie == [patterns |-> <<>>, linked |-> FALSE, complete |-> FALSE]

\* NewAhoCorasick(): the automaton of the empty pattern set.
NewAhoCorasick == [EmptyTrie EXCEPT !.complete = TRUE]

\* The loop "for node != nil && node.children[char] == nil" on a trie
\* whose fail links may still be nil.
TrieFollow(trie, path, ch) ==
    IF trie.linked THEN FollowFail(trie.patterns, path, ch)
    ELSE IF HasChild(trie.patterns, path, ch) THEN path
    ELSE NilNode

\* A search that reads only the patterns addPattern stored at the node.
TrieOutputOwn(trie, path) == OwnOutput(trie.patterns, path)

\* node.output of the node at path.
TrieOutput(trie, path) ==
    IF trie.linked THEN NodeOutput(trie.patterns, path)
    ELSE OwnOutput(trie.patterns, path)

\* The matches Search appends for node.output at position.
Emit(output, position) ==
    MapSeq(LAMBDA p : [word |-> p.word,
                       position |-> position - Len(p.word) + 1,
                       category |-> p.category,
                       nsfwScore |-> p.nsfwScore],
           output)

\* sync.RWMutex: RLock waits while a writer holds the lock or waits for it.
CanRLockAlways(mu) == TRUE

CanRLock(mu) == ~mu.writer /\ ~mu.pending

\* sync.RWMutex: Lock waits for the writer and for every reader to leave.
CanLock(mu) == ~mu.writer /\ mu.readers = {}

(***************************************************************************)
(* Inputs of the model.                                                    *)
(***************************************************************************)
\* The texts submitted to Moderate: the empty text, "B4" and "b@" (two
\* leet spellings of "ba" that split differently into tokens) and "x b@"
\* (two tokens, "x" and "b").
Texts == {<<>>, <<"B", "4">>, <<"b", "@">>, <<"x", " ", "b", "@">>}

\* The bad words the admin adds: a single-token phrase that auto-rejects
\* and a two-token phrase of review severity.
Words ==
    {[word |-> <<"b", "a">>, category |-> "profanity", nsfwScore |-> 90],
     [word |-> <<"x", " ", "b">>, category |-> "hate", nsfwScore |-> 60]}

\* The answers of the text classifier (pb.PredictResponse).
Responses ==
    {[isNsfw |-> FALSE, safetyLabel |-> "Safe", categories |-> {}],
     [isNsfw |-> TRUE, safetyLabel |-> "Unsafe", categories |-> {"Violent"}],
     [isNsfw |-> TRUE, safetyLabel |-> "Controversial",
      categories |-> {"Politically Sensitive Topics"}]}

\* Answers the classifier's wire format allows besides: is_nsfw and the
\* label disagreeing, and the label in upper case.
AnyResponses ==
    Responses \cup
    {[isNsfw |-> FALSE, safetyLabel |-> "Unsafe", categories |-> {}],
     [isNsfw |-> TRUE, safetyLabel |-> "Safe", categories |-> {"Violent"}],
     [isNsfw |-> TRUE, safetyLabel |-> "UNSAFE", categories |-> {"Violent"}]}

\* A failed classifier RPC (transport error, timeout, cancelled context).
ClsError == [isNsfw |-> FALSE, safetyLabel |-> "error", categories |-> {}]

\* The classifier has not been asked about a text yet.
Unknown == [isNsfw |-> FALSE, safetyLabel |-> "unknown", categories |-> {}]

(***************************************************************************)
(* Cache layers.  L1 is the Redis envelope textCacheEntry under            *)
(* cacheKeyPrefix + contentHashHex; L2 is the text_caches table.           *)
(***************************************************************************)
\* contentHashHex of Moderate: hex of hash.FastHash(normalizedText).
ContentHashHex(text) == FastHash(NormalizeText(text))

L1Keys == {ContentHashHex(t) : t \in Texts \ {<<>>}}

\* The primary keys of text_caches: those Moderate writes and those
\* AddBadWord writes (hash.HashTextSha256(word)).
L2Keys == L1Keys \cup {HashTextSha256(w.word) : w \in Words}

NoEntry == [category |-> "none"]

NoRow == [category |-> "none"]

\* UpsertTextCache: insert, or on conflict replace category and nsfw_score
\* (normalized_content and expires_at keep the value of the first insert;
\* an unset expires_at is "null").
Upsert(rows, key, content, category, nsfwScore, expiresAt) ==
    [rows EXCEPT ![key] =
        [normalizedContent |-> IF rows[key] = NoRow THEN content
                               ELSE rows[key].normalizedContent,
         category |-> category,
         nsfwScore |-> nsfwScore,
         expiresAt |-> IF rows[key] = NoRow THEN expiresAt
                       ELSE rows[key].expiresAt]]

(***************************************************************************)
(* TextModerator: the pure steps of Moderate.                              *)
(***************************************************************************)
\* The result Moderate starts from.
DefaultResult ==
    [isClean |-> TRUE, matches |-> <<>>, maxNsfwScore |-> 0, categories |-> {},
     shouldReject |-> FALSE, shouldReview |-> FALSE, nsfwChecked |-> FALSE,
     detectedByNSFW |-> FALSE, detectedPhrases |-> <<>>, cacheHit |-> FALSE]

\* A conversion of a cached envelope that does not mark the result as a hit.
cacheEntryToResultUnmarked(entry) ==
    [isClean |-> entry.isClean, matches |-> <<>>,
     maxNsfwScore |-> entry.nsfwScore, categories |-> entry.categories,
     shouldReject |-> entry.shouldReject, shouldReview |-> entry.shouldReview,
     nsfwChecked |-> FALSE, detectedByNSFW |-> FALSE,
     detectedPhrases |-> <<>>, cacheHit |-> FALSE]

cacheEntryToResult(entry) ==
    [isClean |-> entry.isClean, matches |-> <<>>,
     maxNsfwScore |-> entry.nsfwScore, categories |-> entry.categories,
     shouldReject |-> entry.shouldReject, shouldReview |-> entry.shouldReview,
     nsfwChecked |-> FALSE, detectedByNSFW |-> FALSE,
     detectedPhrases |-> <<>>, cacheHit |-> TRUE]

dbCacheToEntry(row) ==
    [category |-> row.category, nsfwScore |-> row.nsfwScore,
     isClean |-> (row.category = "safe"),
     shouldReject |-> (row.category = "unsafe"),
     shouldReview |-> (row.category = "controversial"),
     categories |-> {}]

\* The Bloom checks of step 4, numbered 0 (whole text, under
\* hash.FastHash) and 1..n (token i, under hash.HashTextSha256).
BloomChecks(text) == 0..Len(tokenize(text))

\* hasPotentialMatch after step 4, when the checks in failed ended with a
\* KV error: a check counts only if err == nil && exists.
PrefilterHit(bits, text, failed) ==
    LET tokens == tokenize(text)
    IN \/ 0 \notin failed /\ Exists(bits, FastHash(NormalizeText(text)))
       \/ \E i \in 1..Len(tokens) :
             /\ i \notin failed
             /\ Exists(bits, HashTextSha256(NormalizeText(tokens[i])))

RECURSIVE MaxScore(_)
MaxScore(matches) ==
    IF matches = <<>> THEN 0
    ELSE LET m == MaxScore(Tail(matches))
         IN IF Head(matches).nsfwScore > m THEN Head(matches).nsfwScore ELSE m

\* A pattern match that leaves IsClean as it was.
PatternResultStaysClean(result, matches) ==
    IF Len(matches) > 0
    THEN [result EXCEPT !.matches = matches,
                        !.maxNsfwScore = MaxScore(matches),
                        !.categories = {matches[i].category : i \in 1..Len(matches)}]
    ELSE result

\* The result after the pattern match (text.go, "if len(matches) > 0").
PatternResult(result, matches) ==
    IF Len(matches) > 0
    THEN [result EXCEPT !.isClean = FALSE,
                        !.matches = matches,
                        !.maxNsfwScore = MaxScore(matches),
                        !.categories = {matches[i].category : i \in 1..Len(matches)}]
    ELSE result

\* Step 4 as a whole: the result after the Bloom checks and the search.
PatternStep(bits, patterns, text, failed) ==
    PatternResult(DefaultResult,
                  IF PrefilterHit(bits, text, failed)
                  THEN Search(patterns, NormalizeText(text)) ELSE <<>>)

\* needModel of step 5.
NeedModel(result) == ~(result.maxNsfwScore >= RejectThreshold)

\* A step 5 that asks the classifier whatever the pattern score is.
CallsModelAnyScore(result, client) == client

\* The condition of step 5: "tm.nsfwTextClient != nil && needModel".
CallsModel(result, client) == client /\ NeedModel(result)

\* strings.ToLower on the safety label.
LowerLabel(label) ==
    CASE label = "Unsafe" -> "unsafe"
      [] label = "UNSAFE" -> "unsafe"
      [] label = "Controversial" -> "controversial"
      [] label = "Safe" -> "safe"
      [] OTHER -> label

\* The classifier flagged the text: the branch "if resp.IsNsfw".
ClassifierFlags(resp) == resp # ClsError /\ resp.isNsfw

\* Step 5 with NSFWChecked set before the error of Predict is looked at.
ApplyClassifierUnchecked(result, text, resp) ==
    IF ~resp.isNsfw THEN [result EXCEPT !.nsfwChecked = TRUE]
    ELSE [result EXCEPT
            !.nsfwChecked = TRUE,
            !.isClean = FALSE,
            !.detectedByNSFW = TRUE,
            !.categories = result.categories \cup resp.categories,
            !.shouldReject = IF resp.safetyLabel = "Unsafe"
                             THEN TRUE ELSE result.shouldReject,
            !.shouldReview = IF resp.safetyLabel = "Controversial"
                             THEN TRUE ELSE result.shouldReview,
            !.detectedPhrases = Append(result.detectedPhrases, text)]

\* Step 5 after Predict returned resp (ClsError when err != nil).
ApplyClassifier(result, text, resp) ==
    IF resp = ClsError THEN result
    ELSE IF ~resp.isNsfw THEN [result EXCEPT !.nsfwChecked = TRUE]
    ELSE [result EXCEPT
            !.nsfwChecked = TRUE,
            !.isClean = FALSE,
            !.detectedByNSFW = TRUE,
            !.categories = result.categories \cup resp.categories,
            !.shouldReject = IF LowerLabel(resp.safetyLabel) = "unsafe"
                             THEN TRUE ELSE result.shouldReject,
            !.shouldReview = IF LowerLabel(resp.safetyLabel) = "controversial"
                             THEN TRUE ELSE result.shouldReview,
            !.detectedPhrases = Append(result.detectedPhrases, text)]

\* Step 6: the final decision from the pattern severity.
SeverityOverride(result) ==
    IF result.maxNsfwScore >= RejectThreshold
    THEN [result EXCEPT !.shouldReject = TRUE]
    ELSE IF result.maxNsfwScore >= ReviewThreshold
         THEN [result EXCEPT !.shouldReview = TRUE]
         ELSE result

\* Steps 5 and 6 after Predict returned resp.
ClassifierStep(result, text, resp) ==
    SeverityOverride(ApplyClassifier(result, text, resp))

\* A category that lets shouldReview win over shouldReject.
resultToCategoryReviewFirst(result) ==
    IF result.shouldReview THEN "controversial"
    ELSE IF result.shouldReject THEN "unsafe"
    ELSE "safe"

resultToCategory(result) ==
    IF result.shouldReject THEN "unsafe"
    ELSE IF result.shouldReview THEN "controversial"
    ELSE "safe"

\* The envelope saveTextResult writes to Redis.
EntryOfResult(result) ==
    [category |-> resultToCategory(result), nsfwScore |-> result.maxNsfwScore,
     isClean |-> result.isClean, shouldReject |-> result.shouldReject,
     shouldReview |-> result.shouldReview, categories |-> result.categories]

(***************************************************************************)
(* TextModerator.Moderate as a process.  A call moves through its          *)
(* suspension points: the L1 read, the L2 read, the L1 write-through of an  *)
(* L2 hit, the Bloom checks with the pattern match, the classifier RPC,    *)
(* the repository upsert and the L1 write.  The fields after err record    *)
(* what happened during the call and are read by the properties only      *)
(* (resp: what Predict returned; enq: enqueueFeedback was called; fb: it   *)
(* started the feedback goroutine).                                        *)
(***************************************************************************)
IdleCall ==
    [pc |-> "idle", text |-> <<>>, res |-> DefaultResult, err |-> "nil",
     entry |-> NoEntry, cancelled |-> FALSE, late |-> FALSE,
     readFailed |-> FALSE, bloomFailed |-> FALSE,
     patRes |-> DefaultResult, clsCalled |-> FALSE, clsFailed |-> FALSE,
     resp |-> Unknown, enq |-> FALSE, fb |-> FALSE, dbSaved |-> FALSE,
     wbFailed |-> FALSE]

\* The outcome ok of a suspension point under the call's context: every
\* KV, repository and classifier call of a cancelled context fails.
CtxAllows(call, ok) == call.cancelled => ~ok

\* A Moderate that hands the error of a failed store call to its caller.
ReturnErrPropagated(call) ==
    IF call.readFailed \/ call.bloomFailed \/ call.wbFailed THEN "kv" ELSE "nil"

\* What Moderate returns: every return statement of Moderate returns a nil
\* error.
ReturnErr(call) == "nil"

\* The call returns result.
Return(call, result) ==
    [call EXCEPT !.pc = "done", !.res = result, !.err = ReturnErr(call)]

\* call is a returned Moderate(t) in which the classifier flagged t as
\* unsafe and both writes of the writeback succeeded.
FlaggedUnsafe(call, t) ==
    /\ call.pc = "done"
    /\ call.text = t
    /\ call.res.detectedByNSFW
    /\ call.res.shouldReject
    /\ call.dbSaved
    /\ ~call.wbFailed

\* Moderate(ctx, text) is entered: the empty text returns the default
\* result at once.  The field late records that a call which flagged the
\* text as unsafe had returned before.
Enter(c, t) ==
    /\ calls[c].pc \in {"idle", "done"}
    /\ nCalls' = nCalls + 1
    /\ calls' = [calls EXCEPT ![c] =
          IF t = <<>>
          THEN Return([IdleCall EXCEPT !.text = t], DefaultResult)
          ELSE [IdleCall EXCEPT !.pc = "l1", !.text = t,
                                !.late = \E d \in Callers : FlaggedUnsafe(calls[d], t)]]

\* A caller other than ModerationUsecase.Moderate calls Moderate(ctx, text).
Start(c, t) ==
    /\ Enter(c, t)
    /\ UNCHANGED <<auxVars, bloom, added, acPatterns, l1, l2, clsMemo,
                   feedbackCallback, uc, nReq>>

\* The request context is cancelled while the call is in flight.
Cancel(c) ==
    /\ calls[c].pc \notin {"idle", "done"}
    /\ ~calls[c].cancelled
    /\ calls' = [calls EXCEPT ![c].cancelled = TRUE]
    /\ UNCHANGED <<auxVars, bloom, added, acPatterns, l1, l2, nCalls, clsMemo,
                   feedbackCallback, uc, nReq>>

\* Step 2: getFromRedisCache; a hit returns cacheEntryToResult(cached).
L1Read(c) ==
    /\ calls[c].pc = "l1"
    /\ \E ok \in BOOLEAN :
         /\ CtxAllows(calls[c], ok)
         /\ LET key == ContentHashHex(calls[c].text)
            IN calls' = [calls EXCEPT ![c] =
                 IF ok /\ l1[key] # NoEntry
                 THEN Return(calls[c], cacheEntryToResult(l1[key]))
                 ELSE [calls[c] EXCEPT !.pc = "l2", !.readFailed = ~ok]]
    /\ UNCHANGED <<auxVars, bloom, added, acPatterns, l1, l2, nCalls, clsMemo,
                   feedbackCallback, uc, nReq>>

\* Step 3: textCacheChecker.FindByContentHash; a hit is turned into an
\* envelope by dbCacheToEntry.
L2Read(c) ==
    /\ calls[c].pc = "l2"
    /\ \E ok \in BOOLEAN :
         /\ CtxAllows(calls[c], ok)
         /\ LET key == ContentHashHex(calls[c].text)
            IN calls' = [calls EXCEPT ![c] =
                 IF ok /\ l2[key] # NoRow
                 THEN [calls[c] EXCEPT !.pc = "l2wt",
                                       !.entry = dbCacheToEntry(l2[key])]
                 ELSE [calls[c] EXCEPT !.pc = "bloom",
                                       !.readFailed = calls[c].readFailed \/ ~ok]]
    /\ UNCHANGED <<auxVars, bloom, added, acPatterns, l1, l2, nCalls, clsMemo,
                   feedbackCallback, uc, nReq>>

\* Step 3, continued: setRedisCache(entry), then return the L2 hit.
L2WriteThrough(c) ==
    /\ calls[c].pc = "l2wt"
    /\ \E ok \in BOOLEAN :
         /\ CtxAllows(calls[c], ok)
         /\ l1' = IF ok
                  THEN [l1 EXCEPT ![ContentHashHex(calls[c].text)] = calls[c].entry]
                  ELSE l1
    /\ calls' = [calls EXCEPT ![c] =
                   Return(calls[c], cacheEntryToResult(calls[c].entry))]
    /\ UNCHANGED <<auxVars, bloom, added, acPatterns, l2, nCalls, clsMemo,
                   feedbackCallback, uc, nReq>>

\* Step 4: the Bloom checks, then AhoCorasick.Search if one of them hit.
\* When the classifier is not asked step 6 follows at once.
PatternMatch(c) ==
    /\ calls[c].pc = "bloom"
    /\ \E failed \in SUBSET BloomChecks(calls[c].text) :
         /\ calls[c].cancelled => failed = BloomChecks(calls[c].text)
         /\ \E result \in {PatternStep(bloom, acPatterns, calls[c].text, failed)} :
              calls' = [calls EXCEPT ![c] =
                 [calls[c] EXCEPT
                    !.bloomFailed = (failed # {}),
                    !.patRes = result,
                    !.pc = IF CallsModel(result, nsfwTextClient)
                           THEN "classify" ELSE "savedb",
                    !.res = IF CallsModel(result, nsfwTextClient) THEN result
                            ELSE SeverityOverride(result)]]
    /\ UNCHANGED <<auxVars, bloom, added, acPatterns, l1, l2, nCalls, clsMemo,
                   feedbackCallback, uc, nReq>>

\* enqueueFeedback, called when the classifier flagged the text, starts the
\* feedback goroutine iff a callback is set.
Enqueues(resp, cb) == ClassifierFlags(resp) /\ cb

\* The context the feedback goroutine hands to the callback: 0 stands for
\* the context derived from context.Background(), c for the request
\* context of caller c.
FeedbackCtxOfRequest(c) == c

FeedbackCtx(c) == 0

\* The goroutine enqueueFeedback starts for the text of caller c.
FeedbackTask(c, text) ==
    [text |-> text, by |-> c, ctx |-> FeedbackCtx(c), state |-> "running"]

\* Step 5 with the answer resp of nsfwTextClient.Predict, then step 6.
\* enqueueFeedback takes the read lock of tm.mu to read the callback and
\* releases it before the go statement.
Predicted(c, resp) ==
    /\ calls[c].pc = "classify"
    /\ calls[c].cancelled => resp = ClsError
    /\ ClassifierFlags(resp) => CanRLock(tmMu)
    /\ fbTasks' = IF Enqueues(resp, feedbackCallback)
                  THEN Append(fbTasks, FeedbackTask(c, calls[c].text))
                  ELSE fbTasks
    /\ calls' = [calls EXCEPT ![c] =
         [calls[c] EXCEPT
            !.pc = "savedb",
            !.res = ClassifierStep(calls[c].res, calls[c].text, resp),
            !.clsCalled = TRUE,
            !.clsFailed = (resp = ClsError),
            !.resp = resp,
            !.enq = ClassifierFlags(resp),
            !.fb = Enqueues(resp, feedbackCallback)]]
    /\ UNCHANGED <<sideVars, adminVars, bloom, added, acPatterns, l1, l2, nCalls,
                   feedbackCallback, uc, nReq>>

\* The context of a feedback task was cancelled.
TaskCancelled(task) == task.ctx # 0 /\ calls[task.ctx].cancelled

\* The feedback goroutine: cb(ctx, text, categories) returns nil or an
\* error, or runs into the 5 second timeout of its context; "_ =" drops
\* what it returns.  A callback that does not return takes no step.  No
\* callback is registered in the repository, so its effect on the stores
\* is not part of the model.
FeedbackRun(i) ==
    /\ fbTasks[i].state = "running"
    /\ \E outcome \in {"ok", "error", "timeout", "cancelled"} :
         /\ outcome = "cancelled" => TaskCancelled(fbTasks[i])
         /\ fbTasks' = [fbTasks EXCEPT ![i].state = outcome]
    /\ UNCHANGED <<textVars, sideVars, adminVars>>

\* Step 5 against a classifier that may answer anything at each call.
Classify(c) ==
    /\ \E resp \in Responses \cup {ClsError} : Predicted(c, resp)
    /\ UNCHANGED clsMemo

\* Step 5 against a classifier whose label and is_nsfw flag need not agree.
ClassifyAny(c) ==
    /\ \E resp \in AnyResponses \cup {ClsError} : Predicted(c, resp)
    /\ UNCHANGED clsMemo

\* Step 5 against a classifier that is a function of the raw text: an
\* answer, once given, is given again; only the transport may fail.
ClassifyStable(c) ==
    \E resp \in Responses \cup {ClsError} :
       /\ resp # ClsError => clsMemo[calls[c].text] \in {Unknown, resp}
       /\ Predicted(c, resp)
       /\ clsMemo' = IF resp = ClsError THEN clsMemo
                     ELSE [clsMemo EXCEPT ![calls[c].text] = resp]

\* The call after a writeback step that ended ok or with an error: the
\* error is dropped ("Log warning but don't fail").
AfterWriteback(call, ok, next) ==
    [call EXCEPT !.pc = next, !.wbFailed = call.wbFailed \/ ~ok]

\* Step 7, saveTextResult: textCacheChecker.SaveTextResult.
SaveDB(c) ==
    /\ calls[c].pc = "savedb"
    /\ \E ok \in BOOLEAN :
         /\ CtxAllows(calls[c], ok)
         /\ l2' = IF ok
                  THEN Upsert(l2, ContentHashHex(calls[c].text),
                              NormalizeText(calls[c].text),
                              resultToCategory(calls[c].res),
                              calls[c].res.maxNsfwScore, "null")
                  ELSE l2
         /\ calls' = [calls EXCEPT ![c] =
              [AfterWriteback(calls[c], ok, "savel1") EXCEPT !.dbSaved = ok]]
    /\ UNCHANGED <<auxVars, bloom, added, acPatterns, l1, nCalls, clsMemo,
                   feedbackCallback, uc, nReq>>

\* Step 7, saveTextResult: setRedisCache, then "return result, nil".
SaveL1(c) ==
    /\ calls[c].pc = "savel1"
    /\ \E ok \in BOOLEAN :
         /\ CtxAllows(calls[c], ok)
         /\ l1' = IF ok
                  THEN [l1 EXCEPT ![ContentHashHex(calls[c].text)] =
                                      EntryOfResult(calls[c].res)]
                  ELSE l1
         /\ calls' = [calls EXCEPT ![c] =
              Return(AfterWriteback(calls[c], ok, "done"), calls[c].res)]
    /\ UNCHANGED <<auxVars, bloom, added, acPatterns, l2, nCalls, clsMemo,
                   feedbackCallback, uc, nReq>>

\* Moderate(text) from the current filters and caches when no store call
\* fails and the classifier answers resp: the steps above in sequence.
ModerateOutcome(text, resp) ==
    LET key == ContentHashHex(text)
        pattern == PatternStep(bloom, acPatterns, text, {})
    IN IF text = <<>> THEN DefaultResult
       ELSE IF l1[key] # NoEntry THEN cacheEntryToResult(l1[key])
       ELSE IF l2[key] # NoRow THEN cacheEntryToResult(dbCacheToEntry(l2[key]))
       ELSE IF CallsModel(pattern, nsfwTextClient)
            THEN ClassifierStep(pattern, text, resp)
       ELSE SeverityOverride(pattern)

(***************************************************************************)
(* Admin operations: ModerationUsecase.AddBadWord and RebuildFilters, and  *)
(* TextModerator.SetFeedbackCallback.                                      *)
(***************************************************************************)
\* The items TextModerator.AddWord and RebuildFilters add to the Bloom
\* filter for one word: the phrase, then each token if there are several.
BloomItems(word) ==
    LET tokens == tokenize(word)
    IN <<HashTextSha256(NormalizeText(word))>>
         \o (IF Len(tokens) > 1
             THEN MapSeq(LAMBDA t : HashTextSha256(NormalizeText(t)), tokens)
             ELSE <<>>)

\* Filter.AddWithCtx for the first n items of a list, one after the other.
RECURSIVE AddItems(_, _, _)
AddItems(bits, items, n) ==
    IF n = 0 THEN bits
    ELSE BitSetSet(AddItems(bits, items, n - 1), getLocations(items[n]))

\* AddBadWord(word, category, nsfwScore): AddWord stops at the first Bloom
\* error; the upsert follows only if every Bloom add succeeded.
AddBadWord(w) ==
    \E items \in {BloomItems(w.word)} :
      \E n \in 0..Len(items), upsertOk \in BOOLEAN :
         /\ bloom' = AddItems(bloom, items, n)
         /\ added' = added \cup {items[i] : i \in 1..n}
         /\ l2' = IF n = Len(items) /\ upsertOk
                  THEN Upsert(l2, HashTextSha256(w.word), w.word, w.category,
                              IF w.nsfwScore < 0 \/ w.nsfwScore > 100
                              THEN 100 ELSE w.nsfwScore, "null")
                  ELSE l2
         /\ bloom' # bloom \/ l2' # l2
         /\ UNCHANGED <<auxVars, acPatterns, l1, calls, nCalls, clsMemo,
                        feedbackCallback, uc, nReq>>

\* A set as a sequence, in the order the repository lists its rows.
RECURSIVE SetToSeq(_)
SetToSeq(S) ==
    IF S = {} THEN <<>>
    ELSE LET x == CHOOSE y \in S : TRUE IN <<x>> \o SetToSeq(S \ {x})

\* ModerationUsecase.RebuildFilters: the bad words are the rows of
\* textCache.ListAll whose category is not "safe".
BadWordsOf(rows) ==
    LET keys == SetToSeq({k \in L2Keys : rows[k] # NoRow /\ rows[k].category # "safe"})
    IN MapSeq(LAMBDA k : [word |-> rows[k].normalizedContent,
                          category |-> rows[k].category,
                          nsfwScore |-> rows[k].nsfwScore],
              keys)

\* RebuildFilters: Build swaps the automaton, then the Bloom adds run
\* until the first KV error.
RebuildFilters ==
    \E words \in {BadWordsOf(l2)} :
      \E items \in {Flatten(MapSeq(LAMBDA w : BloomItems(w.word), words))} :
        \E n \in 0..Len(items) :
         /\ CanLock(tmMu)
         /\ acPatterns' = words
         /\ bloom' = AddItems(bloom, items, n)
         /\ added' = added \cup {items[i] : i \in 1..n}
         /\ acPatterns' # acPatterns \/ bloom' # bloom
         /\ UNCHANGED <<auxVars, l1, l2, calls, nCalls, clsMemo, feedbackCallback, uc, nReq>>

\* SetFeedbackCallback holds tm.mu exclusively while it stores the callback.
SetFeedbackCallback ==
    /\ ~feedbackCallback
    /\ CanLock(tmMu)
    /\ feedbackCallback' = TRUE
    /\ UNCHANGED <<auxVars, bloom, added, acPatterns, l1, l2, calls, nCalls, clsMemo, uc, nReq>>

(***************************************************************************)
(* The admin operations of ModerationUsecase as a process, one call at a   *)
(* time, each KV and repository call a step of its own: AddBadWord         *)
(* (TextModerator.AddWord, then textCache.Upsert), RemoveBadWord           *)
(* (textCache.Delete) and RebuildFilters (textCache.ListAll, then          *)
(* TextModerator.RebuildFilters, which holds tm.mu from its first          *)
(* statement to its return).  The fields n and gone are read by the        *)
(* properties only (n: the calls made; gone: the word of the last          *)
(* RemoveBadWord that deleted a row while no Moderate call was in flight,  *)
(* the number of Moderate calls started until then, whether the Bloom      *)
(* held the word then, and whether a RebuildFilters succeeded since).      *)
(***************************************************************************)
\* What the admin submits: the bad words, and the first of them with the
\* category "safe".
AdminWords ==
    Words \cup {[word |-> <<"b", "a">>, category |-> "safe", nsfwScore |-> 90]}

\* The calls made so far, by the admin and by the callers of Moderate.
AdminBudget == admin.n + nCalls

\* The texts moderated beside the admin.
AdminTexts == {<<"b", "a">>}

NoWord == [word |-> <<>>, category |-> "none", nsfwScore |-> 0]

NoGone == [word |-> <<>>, at |-> -1, bloomed |-> FALSE, rebuilt |-> FALSE]

(***************************************************************************)
(* The lock operations of the text path: TextModerator.mu and              *)
(* AhoCorasick.mu as concurrent Moderate, RebuildFilters, AddWord and      *)
(* SetFeedbackCallback calls take and release them.                        *)
(***************************************************************************)
\* The goroutines of the text path at their lock operations.
Goroutines == {1, 2, 3}

\* One goroutine: the call it runs, its position, the calls it has made.
IdleLocker == [op |-> "none", pc |-> "idle", n |-> 0]

InitLocks == lk = [g \in Goroutines |-> IdleLocker]

\* What the lock operations leave alone.
lockFrame ==
    <<textVars, admin, fbTasks, nsfwTextClient, nz, imgVars, poolVars,
      acRoot, tries, build, search, nBuilds, nSearches>>

\* A mutex whose Unlock is never run.
UnlockNever(mu) == mu

\* mu.Unlock()
Unlock(mu) == [mu EXCEPT !.writer = FALSE]

\* mu.RUnlock() by g
RUnlock(mu, g) == [mu EXCEPT !.readers = @ \ {g}]

\* g moves to pc.
MoveTo(g, pc) == lk' = [lk EXCEPT ![g].pc = pc]

\* g returns from its call.
Returns(g) == lk' = [lk EXCEPT ![g].op = "none", ![g].pc = "idle"]

\* The calls made so far by the three goroutines.
LockOps == lk[1].n + lk[2].n + lk[3].n

\* g calls op and stands at pc.
LockCall(g, op, pc) ==
    /\ lk[g].pc = "idle"
    /\ LockOps < MaxLockOps
    /\ lk' = [lk EXCEPT ![g] = [op |-> op, pc |-> pc, n |-> lk[g].n + 1]]
    /\ UNCHANGED <<tmMu, acMu, lockFrame>>

\* Moderate: step 4 calls Search when the Bloom filter reports a potential
\* match, and goes on to step 5 otherwise.
CallModerate(g) == \E pc \in {"search", "predict"} : LockCall(g, "Moderate", pc)

CallRebuildFilters(g) == LockCall(g, "RebuildFilters", "tmLock")

CallSetFeedbackCallback(g) == LockCall(g, "SetFeedbackCallback", "tmLock")

\* AddWord takes no lock.
CallAddWord(g) == LockCall(g, "AddWord", "adding")

AddWordReturns(g) ==
    /\ lk[g].pc = "adding"
    /\ Returns(g)
    /\ UNCHANGED <<tmMu, acMu, lockFrame>>

\* Search: ac.mu.RLock() returns.
SearchRLock(g) ==
    /\ lk[g].pc = "search"
    /\ CanRLock(acMu)
    /\ acMu' = [acMu EXCEPT !.readers = @ \cup {g}]
    /\ MoveTo(g, "searching")
    /\ UNCHANGED <<tmMu, lockFrame>>

\* Search returns: the deferred ac.mu.RUnlock().
SearchRUnlock(g) ==
    /\ lk[g].pc = "searching"
    /\ acMu' = RUnlock(acMu, g)
    /\ MoveTo(g, "predict")
    /\ UNCHANGED <<tmMu, lockFrame>>

\* Step 5 of Moderate: enqueueFeedback is called when the classifier flags
\* the text, and Moderate goes on without it otherwise.
PredictReturns(g) ==
    /\ lk[g].pc = "predict"
    /\ \/ MoveTo(g, "enqueue")
       \/ Returns(g)
    /\ UNCHANGED <<tmMu, acMu, lockFrame>>

\* enqueueFeedback: tm.mu.RLock() returns.
EnqueueRLock(g) ==
    /\ lk[g].pc = "enqueue"
    /\ CanRLock(tmMu)
    /\ tmMu' = [tmMu EXCEPT !.readers = @ \cup {g}]
    /\ MoveTo(g, "reading")
    /\ UNCHANGED <<acMu, lockFrame>>

\* enqueueFeedback: tm.mu.RUnlock(), after which Moderate takes no lock.
EnqueueRUnlock(g) ==
    /\ lk[g].pc = "reading"
    /\ tmMu' = RUnlock(tmMu, g)
    /\ Returns(g)
    /\ UNCHANGED <<acMu, lockFrame>>

\* tm.mu.Lock() of RebuildFilters and SetFeedbackCallback: the writer is
\* admitted to wait for the readers, and new readers wait behind it.
TmLockPending(g) ==
    /\ lk[g].pc = "tmLock"
    /\ ~tmMu.writer /\ ~tmMu.pending
    /\ tmMu' = [tmMu EXCEPT !.pending = TRUE]
    /\ MoveTo(g, "tmWait")
    /\ UNCHANGED <<acMu, lockFrame>>

\* tm.mu.Lock() returns.
TmLock(g) ==
    /\ lk[g].pc = "tmWait"
    /\ CanLock(tmMu)
    /\ tmMu' = [tmMu EXCEPT !.writer = TRUE, !.pending = FALSE]
    /\ MoveTo(g, IF lk[g].op = "RebuildFilters" THEN "acLock" ELSE "set")
    /\ UNCHANGED <<acMu, lockFrame>>

\* Build, called by RebuildFilters under tm.mu: ac.mu.Lock() is requested.
AcLockPending(g) ==
    /\ lk[g].pc = "acLock"
    /\ ~acMu.writer /\ ~acMu.pending
    /\ acMu' = [acMu EXCEPT !.pending = TRUE]
    /\ MoveTo(g, "acWait")
    /\ UNCHANGED <<tmMu, lockFrame>>

\* Build: ac.mu.Lock() returns.
AcLock(g) ==
    /\ lk[g].pc = "acWait"
    /\ CanLock(acMu)
    /\ acMu' = [acMu EXCEPT !.writer = TRUE, !.pending = FALSE]
    /\ MoveTo(g, "building")
    /\ UNCHANGED <<tmMu, lockFrame>>

\* Build returns: the deferred ac.mu.Unlock(); RebuildFilters goes on to
\* the Bloom filter.
AcUnlock(g) ==
    /\ lk[g].pc = "building"
    /\ acMu' = Unlock(acMu)
    /\ MoveTo(g, "bloom")
    /\ UNCHANGED <<tmMu, lockFrame>>

\* RebuildFilters or SetFeedbackCallback returns: the deferred
\* tm.mu.Unlock().
TmUnlock(g) ==
    /\ lk[g].pc \in {"bloom", "set"}
    /\ tmMu' = Unlock(tmMu)
    /\ Returns(g)
    /\ UNCHANGED <<acMu, lockFrame>>

\* A lock operation that returns once the lock is free.
Acquire(g) ==
    \/ SearchRLock(g) \/ EnqueueRLock(g)
    \/ TmLockPending(g) \/ TmLock(g)
    \/ AcLockPending(g) \/ AcLock(g)

\* A step of a running call that waits for nothing.
Proceed(g) ==
    \/ AddWordReturns(g) \/ SearchRUnlock(g) \/ PredictReturns(g)
    \/ EnqueueRUnlock(g) \/ AcUnlock(g) \/ TmUnlock(g)

IdleAdmin ==
    [pc |-> "idle", op |-> "none", word |-> NoWord,
     rows |-> [k \in L2Keys |-> NoRow], words |-> <<>>, items |-> <<>>,
     i |-> 0, err |-> "nil", count |-> 0, n |-> 0, gone |-> NoGone]

InitAdmin ==
    /\ tmMu = [writer |-> FALSE, pending |-> FALSE, readers |-> {}]
    /\ admin = IdleAdmin

\* The admin calls op: what the call before left behind is dropped.
BeginOp(a, op, pc) ==
    [IdleAdmin EXCEPT !.pc = pc, !.op = op, !.n = a.n + 1, !.gone = a.gone]

\* The positions at which the admin waits for a KV or a repository call.
AdminSuspended == {"addword", "upsert", "delete", "list", "rebloom"}

\* AddBadWord clamps a score outside [0, 1] to 1.
ClampScore(score) == IF score < 0 \/ score > 100 THEN 100 ELSE score

\* AddBadWord(word, category, nsfwScore) is called.
AdminAddBadWord(w) ==
    /\ admin.pc \in {"idle", "done"}
    /\ AdminBudget < MaxAdminOps
    /\ admin' = [BeginOp(admin, "AddBadWord", "addword") EXCEPT
                    !.word = [w EXCEPT !.nsfwScore = ClampScore(w.nsfwScore)],
                    !.items = BloomItems(w.word),
                    !.gone = IF admin.gone.word = w.word THEN NoGone
                             ELSE admin.gone]
    /\ UNCHANGED <<textVars, sideVars, tmMu, fbTasks>>

\* TextModerator.AddWord: one bloomFilter.AddWithCtx; the first error is
\* returned.
AdminAddWord ==
    /\ admin.pc = "addword"
    /\ \E ok \in BOOLEAN :
         LET item == admin.items[admin.i + 1]
         IN /\ bloom' = IF ok THEN BitSetSet(bloom, getLocations(item)) ELSE bloom
            /\ added' = IF ok THEN added \cup {item} ELSE added
            /\ admin' = IF ~ok
                        THEN [admin EXCEPT !.pc = "done", !.err = "kv"]
                        ELSE [admin EXCEPT
                                !.i = admin.i + 1,
                                !.pc = IF admin.i + 1 = Len(admin.items)
                                       THEN "upsert" ELSE "addword"]
    /\ UNCHANGED <<sideVars, tmMu, fbTasks, acPatterns, l1, l2, calls, nCalls,
                   clsMemo, feedbackCallback, uc, nReq>>

\* AddBadWord: textCache.Upsert with ExpiresAt nil, whose error is returned.
AdminUpsert ==
    /\ admin.pc = "upsert"
    /\ \E ok \in BOOLEAN :
         /\ l2' = IF ok
                  THEN Upsert(l2, HashTextSha256(admin.word.word), admin.word.word,
                              admin.word.category, admin.word.nsfwScore, "null")
                  ELSE l2
         /\ admin' = [admin EXCEPT !.pc = "done",
                                   !.err = IF ok THEN "nil" ELSE "db"]
    /\ UNCHANGED <<sideVars, tmMu, fbTasks, bloom, added, acPatterns, l1, calls,
                   nCalls, clsMemo, feedbackCallback, uc, nReq>>

\* RemoveBadWord(word) is called.
AdminRemoveBadWord(w) ==
    /\ admin.pc \in {"idle", "done"}
    /\ AdminBudget < MaxAdminOps
    /\ admin' = [BeginOp(admin, "RemoveBadWord", "delete") EXCEPT !.word = w]
    /\ UNCHANGED <<textVars, sideVars, tmMu, fbTasks>>

\* RemoveBadWord: textCache.Delete(HashTextSha256(word)), whose error is
\* returned; deleting a row that does not exist is no error.
AdminDelete ==
    /\ admin.pc = "delete"
    /\ \E ok \in BOOLEAN :
         /\ l2' = IF ok THEN [l2 EXCEPT ![HashTextSha256(admin.word.word)] = NoRow]
                  ELSE l2
         /\ admin' = [admin EXCEPT
               !.pc = "done",
               !.err = IF ok THEN "nil" ELSE "db",
               !.gone = IF ~ok THEN admin.gone
                        ELSE IF /\ l2[HashTextSha256(admin.word.word)] # NoRow
                                /\ \A c \in Callers : calls[c].pc \in {"idle", "done"}
                        THEN [word |-> admin.word.word, at |-> nCalls,
                              bloomed |-> Exists(bloom,
                                  HashTextSha256(NormalizeText(admin.word.word))),
                              rebuilt |-> FALSE]
                        ELSE NoGone]
    /\ UNCHANGED <<sideVars, tmMu, fbTasks, bloom, added, acPatterns, l1, calls,
                   nCalls, clsMemo, feedbackCallback, uc, nReq>>

\* ModerationUsecase.RebuildFilters is called.
AdminRebuildFilters ==
    /\ admin.pc \in {"idle", "done"}
    /\ AdminBudget < MaxAdminOps
    /\ admin' = BeginOp(admin, "RebuildFilters", "list")
    /\ UNCHANGED <<textVars, sideVars, tmMu, fbTasks>>

\* RebuildFilters: textCache.ListAll and the selection of the rows whose
\* category is not "safe"; an error is returned with the count 0.
AdminListAll ==
    /\ admin.pc = "list"
    /\ \E ok \in BOOLEAN :
         admin' = IF ok
                  THEN [admin EXCEPT !.pc = "build", !.rows = l2,
                                     !.words = BadWordsOf(l2)]
                  ELSE [admin EXCEPT !.pc = "done", !.err = "db"]
    /\ UNCHANGED <<textVars, sideVars, tmMu, fbTasks>>

\* An AhoCorasick.Build that adds to the patterns it has.
BuildKeepsOld(old, words) == old \o words

\* AhoCorasick.Build: the root is reset, then every pattern is added.
BuildPatterns(old, words) == words

\* The admin returns from TextModerator.RebuildFilters with err: the
\* deferred tm.mu.Unlock runs, and a success is counted for the word gone.
RebuildReturn(a, err) ==
    [a EXCEPT !.pc = "done", !.err = err,
              !.count = IF err = "nil" THEN Len(a.words) ELSE 0,
              !.gone = IF err = "nil" /\ a.gone # NoGone
                       THEN [a.gone EXCEPT !.rebuilt = TRUE] ELSE a.gone]

\* TextModerator.RebuildFilters: tm.mu.Lock, the patterns, Build.  Without
\* a word there is no Bloom add and the call returns at once.
AdminBuild ==
    /\ admin.pc = "build"
    /\ CanLock(tmMu)
    /\ acPatterns' = BuildPatterns(acPatterns, admin.words)
    /\ \E items \in {Flatten(MapSeq(LAMBDA w : BloomItems(w.word), admin.words))} :
         IF items = <<>>
         THEN /\ admin' = RebuildReturn(admin, "nil")
              /\ UNCHANGED tmMu
         ELSE /\ admin' = [admin EXCEPT !.pc = "rebloom", !.items = items]
              /\ tmMu' = [tmMu EXCEPT !.writer = TRUE]
    /\ UNCHANGED <<sideVars, fbTasks, bloom, added, l1, l2, calls, nCalls,
                   clsMemo, feedbackCallback, uc, nReq>>

\* TextModerator.RebuildFilters: one bloomFilter.AddWithCtx under tm.mu;
\* the first error is returned, and so is nil after the last add.
AdminReAdd ==
    /\ admin.pc = "rebloom"
    /\ \E ok \in BOOLEAN :
         LET item == admin.items[admin.i + 1]
             last == admin.i + 1 = Len(admin.items)
         IN /\ bloom' = IF ok THEN BitSetSet(bloom, getLocations(item)) ELSE bloom
            /\ added' = IF ok THEN added \cup {item} ELSE added
            /\ admin' = IF ~ok THEN RebuildReturn(admin, "kv")
                        ELSE IF last
                        THEN RebuildReturn([admin EXCEPT !.i = admin.i + 1], "nil")
                        ELSE [admin EXCEPT !.i = admin.i + 1]
            /\ tmMu' = IF ~ok \/ last THEN [tmMu EXCEPT !.writer = FALSE] ELSE tmMu
    /\ UNCHANGED <<sideVars, fbTasks, acPatterns, l1, l2, calls, nCalls,
                   clsMemo, feedbackCallback, uc, nReq>>

(***************************************************************************)
(* ModerationUsecase.Moderate: verdict synthesis.                          *)
(***************************************************************************)
\* No result kept yet (a nil TextResult, ImageResult or VideoResult).
NilResult == [nil |-> TRUE]

\* A failed imageModerator.ModerateImageURL.
MediaError == [error |-> TRUE]

\* The flags of an ImageModerationResult or a VideoModerationResult.
MediaResult(isClean, shouldReject, shouldReview) ==
    [isClean |-> isClean, shouldReject |-> shouldReject,
     shouldReview |-> shouldReview]

\* What imageModerator.ModerateImageURL returns for one URL: an error, or
\* an ImageModerationResult with its flags.
ImageOutcomes ==
    {MediaError,
     MediaResult(TRUE, FALSE, FALSE),
     MediaResult(FALSE, FALSE, TRUE),
     MediaResult(FALSE, TRUE, FALSE),
     MediaResult(FALSE, TRUE, TRUE)}

\* What LocalVideoModerator.ModerateVideoURL returns: the placeholder
\* answers clean for every URL and never fails.
VideoOutcomes == {MediaResult(TRUE, FALSE, FALSE)}

\* nImages is len(imageURLs) and imagesDone the number of iterations the
\* loop over imageURLs has made; images and videos count the URLs left.
IdleReq ==
    [pc |-> "idle", images |-> 0, videos |-> 0, nImages |-> 0,
     imagesDone |-> 0, isClean |-> TRUE,
     textResult |-> NilResult, imageResult |-> NilResult,
     videoResult |-> NilResult, anyReject |-> FALSE, anyReview |-> FALSE,
     action |-> "none", verdict |-> "none", err |-> "nil"]

\* The loop over image URLs and the loop over video URLs go on to the next
\* URL unless the result asks to reject.
StopsLoopNever(result) == FALSE

StopsLoop(result) == result.shouldReject

\* fillVerdict: the action and the verdict.
fillVerdict(shouldReject, shouldReview) ==
    IF shouldReject THEN [action |-> "AutoReject", verdict |-> "Reject"]
    ELSE IF shouldReview THEN [action |-> "PendingReview", verdict |-> "Review"]
    ELSE [action |-> "AutoApprove", verdict |-> "Clean"]

\* A Moderate that takes the videos before the images.
ContinueVideosFirst(images, videos) ==
    IF videos > 0 THEN "videos" ELSE IF images > 0 THEN "images" ELSE "verdict"

\* Where Moderate goes on with images image URLs and videos video URLs left.
Continue(images, videos) ==
    IF images > 0 THEN "images" ELSE IF videos > 0 THEN "videos" ELSE "verdict"

\* The request after one more item was moderated with result.
Moderated(req, result) ==
    [req EXCEPT !.isClean = req.isClean /\ result.isClean,
                !.anyReject = req.anyReject \/ result.shouldReject,
                !.anyReview = req.anyReview \/ result.shouldReview]

\* Moderate(ctx, requestID, content, imageURLs, audioURLs, videoURLs) is
\* called with nImages image URLs and nVideos video URLs; a non-empty
\* content starts TextModerator.Moderate.
UcModerate(content, nImages, nVideos) ==
    /\ uc.pc \in {"idle", "done"}
    /\ nReq' = nReq + 1
    /\ uc' = [IdleReq EXCEPT
                !.pc = IF content # <<>> THEN "text"
                       ELSE Continue(nImages, nVideos),
                !.images = nImages,
                !.nImages = nImages,
                !.videos = nVideos]
    /\ IF content # <<>>
       THEN Enter(1, content)
       ELSE UNCHANGED <<auxVars, calls, nCalls>>
    /\ UNCHANGED <<auxVars, bloom, added, acPatterns, l1, l2, clsMemo,
                   feedbackCallback>>

\* Step 1: textModerator.Moderate returned.
UcText ==
    /\ uc.pc = "text"
    /\ calls[1].pc = "done"
    /\ uc' = IF calls[1].err # "nil"
             THEN [uc EXCEPT !.pc = "done", !.err = calls[1].err]
             ELSE [Moderated(uc, calls[1].res) EXCEPT
                      !.pc = Continue(uc.images, uc.videos),
                      !.textResult = calls[1].res]
    /\ UNCHANGED <<auxVars, bloom, added, acPatterns, l1, l2, calls, nCalls, clsMemo,
                   feedbackCallback, nReq>>

\* Step 2, one iteration: an error is logged and the loop continues; a
\* result replaces the one kept, and a rejecting result ends the loop.
UcImage ==
    /\ uc.pc = "images"
    /\ \E out \in ImageOutcomes :
         uc' = IF out = MediaError
               THEN [uc EXCEPT !.images = uc.images - 1,
                               !.imagesDone = uc.imagesDone + 1,
                               !.pc = Continue(uc.images - 1, uc.videos)]
               ELSE LET left == IF StopsLoop(out) THEN 0 ELSE uc.images - 1
                    IN [Moderated(uc, out) EXCEPT
                          !.imageResult = out,
                          !.imagesDone = uc.imagesDone + 1,
                          !.images = left,
                          !.pc = Continue(left, uc.videos)]
    /\ UNCHANGED <<auxVars, bloom, added, acPatterns, l1, l2, calls, nCalls, clsMemo,
                   feedbackCallback, nReq>>

\* Step 4, one iteration of the loop over video URLs.
UcVideo ==
    /\ uc.pc = "videos"
    /\ \E out \in VideoOutcomes :
         uc' = IF out = MediaError
               THEN [uc EXCEPT !.videos = uc.videos - 1,
                               !.pc = Continue(0, uc.videos - 1)]
               ELSE LET left == IF StopsLoop(out) THEN 0 ELSE uc.videos - 1
                    IN [Moderated(uc, out) EXCEPT
                          !.videoResult = out,
                          !.videos = left,
                          !.pc = Continue(0, left)]
    /\ UNCHANGED <<auxVars, bloom, added, acPatterns, l1, l2, calls, nCalls, clsMemo,
                   feedbackCallback, nReq>>

\* The final verdict from the results kept, then "return result, nil".
UcVerdict ==
    /\ uc.pc = "verdict"
    /\ LET kept == {r \in {uc.textResult, uc.imageResult, uc.videoResult} :
                       r # NilResult}
           v == fillVerdict(\E r \in kept : r.shouldReject,
                            \E r \in kept : r.shouldReview)
       IN uc' = [uc EXCEPT !.pc = "done", !.action = v.action,
                           !.verdict = v.verdict]
    /\ UNCHANGED <<auxVars, bloom, added, acPatterns, l1, l2, calls, nCalls, clsMemo,
                   feedbackCallback, nReq>>

(***************************************************************************)
(* AhoCorasick.Build, Search and HasMatch as processes on the shared       *)
(* automaton.  Build: Lock, reset the root, addPattern for each pattern,   *)
(* buildFailLinks, Unlock.  Search and HasMatch: RLock, one iteration of   *)
(* the loop per code point of the normalized text, RUnlock.  The fields    *)
(* auto and overlap of a search are read by the properties only (auto: the *)
(* trie ac.root designated when the search took the read lock; overlap: a  *)
(* Build call was waiting or running during the search).                   *)
(***************************************************************************)
\* The goroutines that call Search or HasMatch.
Searchers == {1, 2}

\* The pattern lists given to Build: three phrases, two of which are
\* suffixes of others ("xba", "ba", "b"); and a phrase written with a
\* combining mark ("ba" + U+0301) next to a phrase that normalizes to the
\* empty string (U+0301 alone).
PatternLists ==
    {<<[word |-> <<"x", "b", "a">>, category |-> "hate", nsfwScore |-> 60],
       [word |-> <<"b", "a">>, category |-> "profanity", nsfwScore |-> 90],
       [word |-> <<"b">>, category |-> "spam", nsfwScore |-> 30]>>,
     <<[word |-> <<"b", "a", "cmb">>, category |-> "profanity", nsfwScore |-> 90],
       [word |-> <<"cmb">>, category |-> "spam", nsfwScore |-> 30]>>}

\* The texts searched: "xB4" (normalized "xba") and "x8" ("xb").
SearchTexts == {<<"x", "B", "4">>, <<"x", "8">>}

IdleSearch ==
    [pc |-> "idle", kind |-> "Search", text |-> <<>>, rest |-> <<>>,
     node |-> [gen |-> 0, path |-> <<>>], position |-> 0, matches |-> <<>>,
     found |-> FALSE, auto |-> NewAhoCorasick, overlap |-> FALSE]

IdleBuild == [pc |-> "idle", patterns |-> <<>>, i |-> 0]

InitFilter ==
    /\ acMu = [writer |-> FALSE, pending |-> FALSE, readers |-> {}]
    /\ acRoot = 0
    /\ tries = [g \in 0..MaxBuilds |-> IF g = 0 THEN NewAhoCorasick ELSE EmptyTrie]
    /\ build = IdleBuild
    /\ search = [s \in Searchers |-> IdleSearch]
    /\ nBuilds = 0
    /\ nSearches = 0

\* Build(patterns) is called: ac.mu.Lock() is requested.
BuildCall(patterns) ==
    /\ build.pc = "idle"
    /\ nBuilds < MaxBuilds
    /\ build' = [pc |-> "lock", patterns |-> patterns, i |-> 0]
    /\ acMu' = [acMu EXCEPT !.pending = TRUE]
    /\ nBuilds' = nBuilds + 1
    /\ UNCHANGED <<textVars, adminVars, fbTasks, setupVars, nz, imgVars, poolVars, acRoot, tries, search, nSearches>>

\* ac.mu.Lock() returns.
BuildLock ==
    /\ build.pc = "lock"
    /\ CanLock(acMu)
    /\ acMu' = [acMu EXCEPT !.writer = TRUE, !.pending = FALSE]
    /\ build' = [build EXCEPT !.pc = "reset"]
    /\ UNCHANGED <<textVars, adminVars, fbTasks, setupVars, nz, imgVars, poolVars, acRoot, tries, search,
                   nBuilds, nSearches>>

\* ac.root = newAhoCorasickNode()
BuildReset ==
    /\ build.pc = "reset"
    /\ acRoot' = acRoot + 1
    /\ tries' = [tries EXCEPT ![acRoot + 1] = EmptyTrie]
    /\ build' = [build EXCEPT !.pc = IF build.patterns = <<>> THEN "link" ELSE "add",
                              !.i = 1]
    /\ UNCHANGED <<textVars, adminVars, fbTasks, setupVars, nz, imgVars, poolVars, acMu, search, nBuilds, nSearches>>

\* One iteration of "for _, pattern := range patterns": addPattern.
BuildAdd ==
    /\ build.pc = "add"
    /\ tries' = [tries EXCEPT ![acRoot].patterns = Append(@, build.patterns[build.i])]
    /\ build' = [build EXCEPT !.pc = IF build.i = Len(build.patterns) THEN "link" ELSE "add",
                              !.i = build.i + 1]
    /\ UNCHANGED <<textVars, adminVars, fbTasks, setupVars, nz, imgVars, poolVars, acMu, acRoot, search,
                   nBuilds, nSearches>>

\* buildFailLinks
BuildLink ==
    /\ build.pc = "link"
    /\ tries' = [tries EXCEPT ![acRoot].linked = TRUE, ![acRoot].complete = TRUE]
    /\ build' = [build EXCEPT !.pc = "unlock"]
    /\ UNCHANGED <<textVars, adminVars, fbTasks, setupVars, nz, imgVars, poolVars, acMu, acRoot, search,
                   nBuilds, nSearches>>

\* The deferred ac.mu.Unlock(); Build returns.
BuildUnlock ==
    /\ build.pc = "unlock"
    /\ acMu' = [acMu EXCEPT !.writer = FALSE]
    /\ build' = IdleBuild
    /\ UNCHANGED <<textVars, adminVars, fbTasks, setupVars, nz, imgVars, poolVars, acRoot, tries, search,
                   nBuilds, nSearches>>

\* Search(text) or HasMatch(text): ac.mu.RLock() returns, the text is
\* normalized and node := ac.root.
SearchBegin(s, kind, text) ==
    /\ search[s].pc \in {"idle", "done"}
    /\ nSearches < MaxSearches
    /\ CanRLock(acMu)
    /\ acMu' = [acMu EXCEPT !.readers = @ \cup {s}]
    /\ search' = [search EXCEPT ![s] =
         [pc |-> IF NormalizeText(text) = <<>> THEN "return" ELSE "loop",
          kind |-> kind, text |-> text, rest |-> NormalizeText(text),
          node |-> [gen |-> acRoot, path |-> <<>>], position |-> 0,
          matches |-> <<>>, found |-> FALSE, auto |-> tries[acRoot],
          overlap |-> FALSE]]
    /\ nSearches' = nSearches + 1
    /\ UNCHANGED <<textVars, adminVars, fbTasks, setupVars, nz, imgVars, poolVars, acRoot, tries, build, nBuilds>>

\* One iteration of "for _, char := range normalizedText".  HasMatch
\* returns true at the first non-empty output.
SearchStep(s) ==
    /\ search[s].pc = "loop"
    /\ LET me == search[s]
           ch == Head(me.rest)
           n == TrieFollow(tries[me.node.gen], me.node.path, ch)
           next == IF n = NilNode THEN [gen |-> acRoot, path |-> <<>>]
                   ELSE [gen |-> me.node.gen, path |-> Append(n, ch)]
           output == TrieOutput(tries[next.gen], next.path)
           hit == me.kind = "HasMatch" /\ Len(output) > 0
       IN search' = [search EXCEPT ![s] =
            [me EXCEPT
               !.pc = IF hit \/ Tail(me.rest) = <<>> THEN "return" ELSE "loop",
               !.rest = Tail(me.rest),
               !.node = next,
               !.position = me.position + 1,
               !.matches = IF me.kind = "Search"
                           THEN me.matches \o Emit(output, me.position)
                           ELSE me.matches,
               !.found = hit,
               !.overlap = me.overlap \/ acMu.pending \/ acMu.writer]]
    /\ UNCHANGED <<textVars, adminVars, fbTasks, setupVars, nz, imgVars, poolVars, acMu, acRoot, tries, build,
                   nBuilds, nSearches>>

\* The deferred ac.mu.RUnlock(); the call returns matches (found).
SearchReturn(s) ==
    /\ search[s].pc = "return"
    /\ acMu' = [acMu EXCEPT !.readers = @ \ {s}]
    /\ search' = [search EXCEPT ![s].pc = "done"]
    /\ UNCHANGED <<textVars, adminVars, fbTasks, setupVars, nz, imgVars, poolVars, acRoot, tries, build,
                   nBuilds, nSearches>>

(***************************************************************************)
(* filter.NormalizeText applied to the texts of at most MaxLen code points *)
(* over the alphabet of the model.                                         *)
(***************************************************************************)
\* An upper-case letter, lower-case letters, leet digits and signs, a
\* space, a precomposed letter and a combining mark.
Alphabet == {"a", "b", "B", "4", "@", "$", "8", " ", "aacute", "cmb"}

\* A text typed so far and NormalizeText of it.
Normalized(text) == [text |-> text, out |-> NormalizeText(text)]

InitNormalize == nz = Normalized(<<>>)

\* NormalizeText is applied to the text extended by one code point.
NormalizeNext(ch) ==
    /\ Len(nz.text) < MaxLen
    /\ nz' = Normalized(Append(nz.text, ch))
    /\ UNCHANGED <<textVars, adminVars, fbTasks, setupVars, acVars, imgVars, poolVars>>

(***************************************************************************)
(* LocalImageModerator.ModerateImageURL as a process: pHash, Bloom check,  *)
(* repository lookup, NSFW detection, saveBadImage (repository, then       *)
(* Bloom).  The fields late and clsCalled are read by the properties only  *)
(* (late: when the call started, the repository held an unsafe row for the *)
(* pHash of its image).                                                    *)
(***************************************************************************)
\* The images moderated, by URL; u1 and u2 show the same picture.
ImageUrls == {"u1", "u2", "u3"}

\* hasher.ComputeHashFromURL(url, hash.PHash) when the download succeeds.
PHashOf(url) == IF url = "u3" THEN 2 ELSE 1

\* phashToBytes: the 8 big-endian bytes of the pHash, input of the Bloom
\* filter.
phashToBytes(phash) ==
    <<"be64", IF phash = 1 THEN <<"a">> ELSE IF phash = 2 THEN <<"b">> ELSE <<"x">>>>

\* The answers of nsfwClient.PredictFromURL.
ImageResponses ==
    {[isNsfw |-> TRUE, nsfwScore |-> 90],
     [isNsfw |-> FALSE, nsfwScore |-> 75],
     [isNsfw |-> FALSE, nsfwScore |-> 10]}

\* PredictFromURL failed, or no NSFW client is configured.
ImageClsError == [isNsfw |-> FALSE, nsfwScore |-> -1]

\* The rows of image_caches by pHash: the category, "none" without a row.
NoImage == "none"

\* badImageCheckerAdapter.FindByPHash: a row whose category is not "safe".
FindByPHash(rows, phash) == rows[phash] \notin {NoImage, "safe"}

\* The result detectNSFWFromURL starts from.
CleanImage(phash) ==
    [isClean |-> TRUE, shouldReject |-> FALSE, nsfwScore |-> 0,
     categories |-> {}, pHash |-> phash, cacheHit |-> FALSE]

\* The result of a confirmed Bloom hit.
CachedBadImage(phash) ==
    [isClean |-> FALSE, shouldReject |-> TRUE, nsfwScore |-> 0,
     categories |-> {<<"nsfw", 100>>}, pHash |-> phash, cacheHit |-> TRUE]

\* nsfwResult.IsNsfw || nsfwResult.NsfwScore >= m.config.NSFWThreshold
ImageFlagged(resp) == resp.isNsfw \/ resp.nsfwScore >= NSFWThreshold

\* A detection that rejects the image when the classifier cannot be asked.
DetectedImageFailClosed(phash, resp) ==
    [isClean |-> resp # ImageClsError /\ ~ImageFlagged(resp),
     shouldReject |-> resp = ImageClsError \/ ImageFlagged(resp),
     nsfwScore |-> IF resp = ImageClsError THEN 0 ELSE resp.nsfwScore,
     categories |-> IF resp = ImageClsError THEN {}
                    ELSE {<<"nsfw", resp.nsfwScore>>},
     pHash |-> phash, cacheHit |-> FALSE]

\* detectNSFWFromURL's result for the answer resp.
DetectedImage(phash, resp) ==
    IF resp = ImageClsError THEN CleanImage(phash)
    ELSE [isClean |-> ~ImageFlagged(resp), shouldReject |-> ImageFlagged(resp),
          nsfwScore |-> resp.nsfwScore,
          categories |-> {<<"nsfw", resp.nsfwScore>>},
          pHash |-> phash, cacheHit |-> FALSE]

\* detectNSFWFromURL calls saveBadImage for a flagged image with a pHash.
SavesBadImage(phash, resp) ==
    resp # ImageClsError /\ ImageFlagged(resp) /\ phash # 0

\* err is the error ModerateImageURL returns: every return statement
\* returns nil.  clsFailed, saved and bloomAdded record, for the
\* properties, a failed PredictFromURL, a stored row and a Bloom add.
IdleImage ==
    [pc |-> "idle", url |-> "u1", phash |-> 0, res |-> CleanImage(0),
     err |-> "nil", late |-> FALSE, hashed |-> FALSE, clsCalled |-> FALSE,
     clsFailed |-> FALSE, saved |-> FALSE, bloomAdded |-> FALSE]

InitImage ==
    /\ imgBloom = {}
    /\ badImages = [h \in {PHashOf(u) : u \in ImageUrls} |-> NoImage]
    /\ img = IdleImage
    /\ nImg = 0

\* ModerateImageURL(ctx, url) is called.
ImageStart(url) ==
    /\ img.pc \in {"idle", "done"}
    /\ nImg < MaxImageCalls
    /\ img' = [IdleImage EXCEPT !.pc = "hash", !.url = url,
                                !.late = FindByPHash(badImages, PHashOf(url))]
    /\ nImg' = nImg + 1
    /\ UNCHANGED <<textVars, adminVars, fbTasks, setupVars, acVars, nz, poolVars, imgBloom, badImages>>

\* Step 1: ComputeHashFromURL; on an error, direct detection with pHash 0.
ImageHash ==
    /\ img.pc = "hash"
    /\ \E ok \in BOOLEAN :
         img' = IF ok
                THEN [img EXCEPT !.pc = "bloom", !.phash = PHashOf(img.url),
                                 !.hashed = TRUE]
                ELSE [img EXCEPT !.pc = "detect", !.phash = 0]
    /\ UNCHANGED <<textVars, adminVars, fbTasks, setupVars, acVars, nz, poolVars, imgBloom, badImages, nImg>>

\* Step 2: bloomFilter.ExistsWithCtx; an error is logged and maybeExists
\* stays false.
ImageBloomCheck ==
    /\ img.pc = "bloom"
    /\ \E ok \in BOOLEAN :
         LET maybeExists == ok /\ Exists(imgBloom, phashToBytes(img.phash))
         IN img' = [img EXCEPT !.pc = IF maybeExists THEN "db" ELSE "detect"]
    /\ UNCHANGED <<textVars, adminVars, fbTasks, setupVars, acVars, nz, poolVars, imgBloom, badImages, nImg>>

\* Step 3: badImageChecker.FindByPHash; an error is logged and exists
\* stays false.
ImageDbLookup ==
    /\ img.pc = "db"
    /\ \E ok \in BOOLEAN :
         LET exists == ok /\ FindByPHash(badImages, img.phash)
         IN img' = IF exists
                   THEN [img EXCEPT !.pc = "done", !.res = CachedBadImage(img.phash)]
                   ELSE [img EXCEPT !.pc = "detect"]
    /\ UNCHANGED <<textVars, adminVars, fbTasks, setupVars, acVars, nz, poolVars, imgBloom, badImages, nImg>>

\* Step 4: detectNSFWFromURL up to saveBadImage.
ImageDetect ==
    /\ img.pc = "detect"
    /\ \E resp \in ImageResponses \cup {ImageClsError} :
         img' = [img EXCEPT
                   !.pc = IF SavesBadImage(img.phash, resp) THEN "save" ELSE "done",
                   !.res = DetectedImage(img.phash, resp),
                   !.clsCalled = TRUE,
                   !.clsFailed = (resp = ImageClsError)]
    /\ UNCHANGED <<textVars, adminVars, fbTasks, setupVars, acVars, nz, poolVars, imgBloom, badImages, nImg>>

\* saveBadImage: badImageChecker.SaveBadImage; on an error nothing else is
\* done.
ImageSaveDb ==
    /\ img.pc = "save"
    /\ \E ok \in BOOLEAN :
         /\ badImages' = IF ok THEN [badImages EXCEPT ![img.phash] = "nsfw"]
                         ELSE badImages
         /\ img' = [img EXCEPT !.pc = IF ok THEN "bloomadd" ELSE "done",
                                !.saved = ok]
    /\ UNCHANGED <<textVars, adminVars, fbTasks, setupVars, acVars, nz, poolVars, imgBloom, nImg>>

\* saveBadImage: bloomFilter.AddWithCtx; an error is logged.
ImageBloomAdd ==
    /\ img.pc = "bloomadd"
    /\ \E ok \in BOOLEAN :
         /\ imgBloom' = IF ok
                        THEN BitSetSet(imgBloom, getLocations(phashToBytes(img.phash)))
                        ELSE imgBloom
         /\ img' = [img EXCEPT !.pc = "done", !.bloomAdded = ok]
    /\ UNCHANGED <<textVars, adminVars, fbTasks, setupVars, acVars, nz, poolVars, badImages, nImg>>

(***************************************************************************)
(* LocalImageModerator.ModerateImageURLs: the caller starts workerCount    *)
(* workers, sends one job per URL on the unbuffered channel jobs, closes   *)
(* the channel and waits for the workers.  A send is a rendezvous with a   *)
(* worker blocked in "range jobs".  A result carries, for the properties,  *)
(* the URL it was computed from, the index of its job and the worker that  *)
(* stored it.                                                              *)
(***************************************************************************)
\* The URL lists given to ModerateImageURLs: the empty list, and lists in
\* which u1 is repeated around u3.
UrlLists == {[i \in 1..n |-> IF i = 2 THEN "u3" ELSE "u1"] : n \in 0..MaxPoolUrls}

PoolWorkers == 1..(IF MaxWorkers > FallbackWorkers THEN MaxWorkers ELSE FallbackWorkers)

\* A nil slot of results.
NilSlot == [of |-> "nil", index |-> -1, by |-> 0]

\* A pool that starts config.Workers workers whatever the value is.
WorkerCountAsConfigured(configured) == configured

\* workerCount for config.Workers.
WorkerCount(configured) == IF configured <= 0 THEN FallbackWorkers ELSE configured

\* A worker that stores every result in the first slot.
SlotShared(job) == 1

\* results[j.index], slots counted from 1.
Slot(job) == job.index + 1

IdleProducer ==
    [pc |-> "idle", urls |-> <<>>, i |-> 1, configured |-> 0, workerCount |-> 0]

IdleWorker == [pc |-> "off", job |-> [index |-> -1, url |-> "nil"]]

InitPool ==
    /\ jobs = "open"
    /\ results = <<>>
    /\ workers = [w \in PoolWorkers |-> IdleWorker]
    /\ producer = IdleProducer
    /\ ctxDone = FALSE

\* ModerateImageURLs(ctx, urls) up to the start of the workers.
PoolCall(urls, configured) ==
    /\ producer.pc = "idle"
    /\ producer' = [pc |-> "push", urls |-> urls, i |-> 1,
                    configured |-> configured,
                    workerCount |-> WorkerCount(configured)]
    /\ results' = [i \in 1..Len(urls) |-> NilSlot]
    /\ workers' = [w \in PoolWorkers |->
                     IF w <= WorkerCount(configured)
                     THEN [IdleWorker EXCEPT !.pc = "recv"] ELSE IdleWorker]
    /\ UNCHANGED <<textVars, adminVars, fbTasks, setupVars, acVars, nz, imgVars, jobs, ctxDone>>

\* The request context is cancelled during the call.
PoolCancel ==
    /\ producer.pc \in {"push", "wait"}
    /\ ~ctxDone
    /\ ctxDone' = TRUE
    /\ UNCHANGED <<textVars, adminVars, fbTasks, setupVars, acVars, nz, imgVars, jobs, results, workers, producer>>

\* "jobs <- job{index: i, url: url}" meets "for j := range jobs" of worker w.
PoolSend(w) ==
    /\ producer.pc = "push"
    /\ producer.i <= Len(producer.urls)
    /\ workers[w].pc = "recv"
    /\ workers' = [workers EXCEPT ![w] =
         [pc |-> "select",
          job |-> [index |-> producer.i - 1, url |-> producer.urls[producer.i]]]]
    /\ producer' = [producer EXCEPT !.i = producer.i + 1]
    /\ UNCHANGED <<textVars, adminVars, fbTasks, setupVars, acVars, nz, imgVars, jobs, results, ctxDone>>

\* close(jobs) after the last send.
PoolClose ==
    /\ producer.pc = "push"
    /\ producer.i > Len(producer.urls)
    /\ jobs' = "closed"
    /\ producer' = [producer EXCEPT !.pc = "wait"]
    /\ UNCHANGED <<textVars, adminVars, fbTasks, setupVars, acVars, nz, imgVars, results, workers, ctxDone>>

\* "select { case <-ctx.Done(): return; default: }" of worker w.
WorkerSelect(w) ==
    /\ workers[w].pc = "select"
    /\ workers' = [workers EXCEPT ![w].pc = IF ctxDone THEN "exited" ELSE "moderate"]
    /\ UNCHANGED <<textVars, adminVars, fbTasks, setupVars, acVars, nz, imgVars, jobs, results, producer, ctxDone>>

\* "res, err := m.ModerateImageURL(ctx, j.url)" and "results[j.index] =
\* res" of worker w; ModerateImageURL returns a nil error on every path.
WorkerModerate(w) ==
    /\ workers[w].pc = "moderate"
    /\ results' = [results EXCEPT ![Slot(workers[w].job)] =
                     [of |-> workers[w].job.url, index |-> workers[w].job.index,
                      by |-> w]]
    /\ workers' = [workers EXCEPT ![w].pc = "recv"]
    /\ UNCHANGED <<textVars, adminVars, fbTasks, setupVars, acVars, nz, imgVars, jobs, producer, ctxDone>>

\* "range jobs" of worker w ends on the closed channel; wg.Done().
WorkerExit(w) ==
    /\ workers[w].pc = "recv"
    /\ jobs = "closed"
    /\ workers' = [workers EXCEPT ![w].pc = "exited"]
    /\ UNCHANGED <<textVars, adminVars, fbTasks, setupVars, acVars, nz, imgVars, jobs, results, producer, ctxDone>>

\* wg.Wait() returns; "return results, nil".
PoolWait ==
    /\ producer.pc = "wait"
    /\ \A w \in PoolWorkers : workers[w].pc \in {"off", "exited"}
    /\ producer' = [producer EXCEPT !.pc = "done"]
    /\ UNCHANGED <<textVars, adminVars, fbTasks, setupVars, acVars, nz, imgVars, jobs, results, workers, ctxDone>>

\* A step of a ModerateImageURLs call in progress.
PoolStep ==
    \/ \E w \in PoolWorkers : PoolSend(w)
    \/ PoolClose
    \/ \E w \in PoolWorkers : WorkerSelect(w)
    \/ \E w \in PoolWorkers : WorkerModerate(w)
    \/ \E w \in PoolWorkers : WorkerExit(w)
    \/ PoolWait

(***************************************************************************)
(* The text pipeline: concurrent Moderate calls and the admin operations.  *)
(***************************************************************************)
Init ==
    /\ bloom = {}
    /\ added = {}
    /\ acPatterns = <<>>
    /\ l1 = [k \in L1Keys |-> NoEntry]
    /\ l2 = [k \in L2Keys |-> NoRow]
    /\ calls = [c \in Callers |-> IdleCall]
    /\ nCalls = 0
    /\ clsMemo = [t \in Texts |-> Unknown]
    /\ feedbackCallback = FALSE
    /\ uc = IdleReq
    /\ nReq = 0
    /\ InitFilter
    /\ InitNormalize
    /\ InitImage
    /\ InitPool
    /\ InitAdmin
    /\ fbTasks = <<>>
    /\ nsfwTextClient = TRUE
    /\ InitLocks

\* The admin operations run at start-up, before the first Moderate call.
Setup == nCalls = 0

\* NewTextModerator is given a nil nsfwTextClient: text NSFW detection is
\* disabled.
WithoutClassifier ==
    /\ nsfwTextClient
    /\ nsfwTextClient' = FALSE
    /\ UNCHANGED <<textVars, adminVars, fbTasks, acVars, nz, imgVars, poolVars, lk>>

\* One caller, whose calls may meet every failure of the stores and of the
\* classifier.
NextSeq ==
    \/ nCalls < MaxCalls /\ \E t \in Texts : Start(1, t)
    \/ L1Read(1)
    \/ L2Read(1)
    \/ L2WriteThrough(1)
    \/ PatternMatch(1)
    \/ Classify(1)
    \/ SaveDB(1)
    \/ SaveL1(1)
    \/ Setup /\ \E w \in Words : AddBadWord(w)
    \/ Setup /\ RebuildFilters

SpecSeq == Init /\ [][NextSeq]_vars

\* One caller whose request context may be cancelled during a call, with
\* or without a feedback callback registered at start-up.
NextCancel ==
    \/ NextSeq
    \/ Cancel(1)
    \/ Setup /\ SetFeedbackCallback

SpecCancel == Init /\ [][NextCancel]_vars

\* The contents of the requests: none, or a text no filter knows.
VerdictTexts == {<<>>, <<"b", "@">>}

\* ModerationUsecase.Moderate requests, one at a time, on empty filters.
NextVerdict ==
    \/ /\ nReq < MaxReq
       /\ \E content \in VerdictTexts, nImages \in 0..MaxUrls, nVideos \in 0..MaxUrls :
             UcModerate(content, nImages, nVideos)
    \/ L1Read(1)
    \/ L2Read(1)
    \/ L2WriteThrough(1)
    \/ PatternMatch(1)
    \/ Classify(1)
    \/ SaveDB(1)
    \/ SaveL1(1)
    \/ UcText
    \/ UcImage
    \/ UcVideo
    \/ UcVerdict

SpecVerdict == Init /\ [][NextVerdict]_vars

\* The text the racing callers submit.
RaceTexts == {<<"b", "@">>}

\* Two callers race on empty filters; the classifier is a function of the
\* text.
NextRace ==
    \E c \in Callers :
       \/ nCalls < MaxRaceCalls /\ \E t \in RaceTexts : Start(c, t)
       \/ L1Read(c)
       \/ L2Read(c)
       \/ L2WriteThrough(c)
       \/ PatternMatch(c)
       \/ ClassifyStable(c)
       \/ SaveDB(c)
       \/ SaveL1(c)

SpecRace == Init /\ [][NextRace]_vars

\* One Build caller and two Search or HasMatch callers on one automaton.
NextFilter ==
    \/ \E patterns \in PatternLists : BuildCall(patterns)
    \/ BuildLock
    \/ BuildReset
    \/ BuildAdd
    \/ BuildLink
    \/ BuildUnlock
    \/ \E s \in Searchers, kind \in {"Search", "HasMatch"}, text \in SearchTexts :
          SearchBegin(s, kind, text)
    \/ \E s \in Searchers : SearchStep(s)
    \/ \E s \in Searchers : SearchReturn(s)

SpecFilter == Init /\ [][NextFilter]_vars

\* NormalizeText on every text of at most MaxLen code points.
NextNormalize == \E ch \in Alphabet : NormalizeNext(ch)

SpecNormalize == Init /\ [][NextNormalize]_vars

\* ModerateImageURL calls, one at a time, each store call of which may fail.
NextImage ==
    \/ \E url \in ImageUrls : ImageStart(url)
    \/ ImageHash
    \/ ImageBloomCheck
    \/ ImageDbLookup
    \/ ImageDetect
    \/ ImageSaveDb
    \/ ImageBloomAdd

SpecImage == Init /\ [][NextImage]_vars

\* One ModerateImageURLs call whose context may be cancelled.
NextPool ==
    \/ \E urls \in UrlLists, configured \in 0..MaxWorkers : PoolCall(urls, configured)
    \/ PoolCancel
    \/ PoolStep

SpecPool == Init /\ [][NextPool]_vars

\* The admin beside one caller of Moderate.
NextAdmin ==
    \/ \E w \in AdminWords : AdminAddBadWord(w)
    \/ \E w \in Words : AdminRemoveBadWord(w)
    \/ AdminRebuildFilters
    \/ AdminAddWord
    \/ AdminUpsert
    \/ AdminDelete
    \/ AdminListAll
    \/ AdminBuild
    \/ AdminReAdd
    \/ /\ AdminBudget < MaxAdminOps
       /\ \E t \in AdminTexts : Start(1, t)
    \/ L1Read(1) \/ L2Read(1) \/ L2WriteThrough(1) \/ PatternMatch(1)
    \/ Classify(1) \/ SaveDB(1) \/ SaveL1(1)

SpecAdmin == Init /\ [][NextAdmin]_vars

\* The texts moderated beside the feedback goroutines.
FeedbackTexts == {<<"b", "@">>}

\* One caller of Moderate, whose request context may be cancelled, and the
\* feedback goroutines its calls start.
NextFeedback ==
    \/ /\ nCalls < MaxFeedbackCalls
       /\ \E t \in FeedbackTexts : Start(1, t)
    \/ Cancel(1)
    \/ SetFeedbackCallback
    \/ L1Read(1) \/ L2Read(1) \/ L2WriteThrough(1) \/ PatternMatch(1)
    \/ Classify(1) \/ SaveDB(1) \/ SaveL1(1)
    \/ \E i \in 1..Len(fbTasks) : FeedbackRun(i)

SpecFeedback == Init /\ [][NextFeedback]_vars

\* The texts moderated with and without a classifier.
ClassifierTexts == {<<"b", "@">>, <<"x", " ", "b", "@">>}

\* The caller submits its first text, or the text of its last call again.
Resubmits(c, t) == nCalls = 0 \/ t = calls[c].text

\* One caller that submits one text again and again, a classifier that may
\* be left out at start-up and that answers anything its wire format allows.
NextClassifier ==
    \/ Setup /\ WithoutClassifier
    \/ Setup /\ \E w \in Words : AddBadWord(w)
    \/ Setup /\ RebuildFilters
    \/ /\ nCalls < MaxClassifierCalls
       /\ \E t \in ClassifierTexts : Resubmits(1, t) /\ Start(1, t)
    \/ L1Read(1) \/ L2Read(1) \/ L2WriteThrough(1) \/ PatternMatch(1)
    \/ ClassifyAny(1) \/ SaveDB(1) \/ SaveL1(1)

SpecClassifier == Init /\ [][NextClassifier]_vars

(***************************************************************************)
(* C1.  After a Moderate(t) call in which the classifier flagged t as      *)
(* unsafe has returned with its writeback done, every later Moderate(t)    *)
(* returns through the cache-hit path (cacheHit and shouldReject set) and   *)
(* makes no classifier call.  A call is "late" when it started after such  *)
(* a call returned; the statement is taken in its most favourable form,    *)
(* for late calls none of whose cache reads failed.                        *)
(***************************************************************************)
C1_LaterCallsHitUnsafe ==
    \A c \in Callers :
       (calls[c].pc = "done" /\ calls[c].late /\ ~calls[c].readFailed)
          => /\ calls[c].res.cacheHit
             /\ calls[c].res.shouldReject
             /\ ~calls[c].clsCalled

(***************************************************************************)
(* C2.  ModerationUsecase.Moderate returns AutoReject (verdict Reject)     *)
(* whenever the text result, a moderated image result or a moderated video *)
(* result of the request set shouldReject, whatever the other flags are.   *)
(***************************************************************************)
C2_RejectDominates ==
    (uc.pc = "done" /\ uc.err = "nil" /\ uc.anyReject)
       => (uc.action = "AutoReject" /\ uc.verdict = "Reject")

\* A request whose text asked for review and one of whose images asked to
\* reject.
C2_Witness ==
    /\ uc.pc = "done"
    /\ uc.textResult # NilResult
    /\ uc.textResult.shouldReview
    /\ ~uc.textResult.shouldReject
    /\ uc.imageResult # NilResult
    /\ uc.imageResult.shouldReject
    /\ uc.action = "AutoReject"

C4_SameNormalizationSameCategory ==
    \A t1 \in Texts \ {<<>>}, t2 \in Texts \ {<<>>}, resp \in Responses \cup {ClsError} :
       NormalizeText(t1) = NormalizeText(t2)
          => resultToCategory(ModerateOutcome(t1, resp))
                = resultToCategory(ModerateOutcome(t2, resp))

(***************************************************************************)
(* C5.  The Bloom filter has no false negatives: Exists is true of every   *)
(* item a successful Add added, and after AddBadWord succeeded for a word  *)
(* (its row is stored) Exists(SHA256(NormalizeText(word))) is true,        *)
(* whatever was added before or after.                                     *)
(***************************************************************************)
\* Tables of the items of the words and of the offsets Exists checks for
\* each, so that a state is compared with values computed once.
PhraseItem == [w \in Words |-> HashTextSha256(NormalizeText(w.word))]

LocationsOf ==
    [x \in UNION {{BloomItems(w.word)[i] : i \in 1..Len(BloomItems(w.word))} :
                     w \in Words}
       |-> getLocations(x)]

C5_NoFalseNegatives ==
    /\ \A x \in added : BitSetCheck(bloom, LocationsOf[x])
    /\ \A w \in Words :
          l2[HashTextSha256(w.word)] # NoRow
             => BitSetCheck(bloom, LocationsOf[PhraseItem[w]])

\* Both words were added, each with all its items.
C5_Witness ==
    /\ \A w \in Words : l2[HashTextSha256(w.word)] # NoRow
    /\ Cardinality(added) >= 4
    /\ \A x \in added : Exists(bloom, x)

(***************************************************************************)
(* C6.  When a phrase p with nsfwScore >= rejectThreshold was added (it is *)
(* in the automaton and all its items are in the Bloom filter), Moderate   *)
(* of an uncached text whose normalization contains NormalizeText(p)       *)
(* returns shouldReject with p's category, and the classifier is not       *)
(* called.  Taken for calls none of whose cache reads or Bloom checks      *)
(* failed.                                                                 *)
(***************************************************************************)
C6_AddedPhraseRejects ==
    \A c \in Callers : \A i \in 1..Len(acPatterns) :
       (/\ calls[c].pc = "done"
        /\ calls[c].text # <<>>
        /\ ~calls[c].res.cacheHit
        /\ ~calls[c].readFailed
        /\ ~calls[c].bloomFailed
        /\ acPatterns[i].nsfwScore >= RejectThreshold
        /\ Range(BloomItems(acPatterns[i].word)) \subseteq added
        /\ Contains(NormalizeText(calls[c].text), NormalizeText(acPatterns[i].word)))
          => /\ calls[c].res.shouldReject
             /\ acPatterns[i].category \in calls[c].res.categories
             /\ ~calls[c].clsCalled

(***************************************************************************)
(* C7.  A Bloom check that fails with a KV error counts as "possibly       *)
(* match": the search still runs, so a text that contains a known bad      *)
(* phrase (one the search finds, and the prefilter passes when the store   *)
(* answers) is reported as not clean.                                      *)
(***************************************************************************)
C7_BloomErrorStillSearches ==
    \A c \in Callers :
       (/\ calls[c].pc = "done"
        /\ calls[c].text # <<>>
        /\ ~calls[c].res.cacheHit
        /\ calls[c].bloomFailed
        /\ PrefilterHit(bloom, calls[c].text, {})
        /\ Len(Search(acPatterns, NormalizeText(calls[c].text))) > 0)
          => ~calls[c].res.isClean

(***************************************************************************)
(* C8.  No failure of the L1 cache, the repository, the Bloom store or a   *)
(* writeback makes Moderate return an error: every call returns a nil      *)
(* error, and a writeback step, failed or not, leaves the result of the    *)
(* call as it was.                                                         *)
(***************************************************************************)
C8_StoreFailuresNeverFail ==
    /\ [](\A c \in Callers : calls[c].pc = "done" => calls[c].err = "nil")
    /\ [][\A c \in Callers :
            calls[c].pc \in {"savedb", "savel1"}
               => calls'[c].res = calls[c].res]_vars

\* A call returned after a cache read, a Bloom check and a writeback failed.
C8_Witness ==
    /\ calls[1].pc = "done"
    /\ calls[1].readFailed
    /\ calls[1].bloomFailed
    /\ calls[1].wbFailed
    /\ ~calls[1].dbSaved
    /\ calls[1].err = "nil"

(***************************************************************************)
(* C9.  When the classifier call fails, Moderate returns a nil error and   *)
(* exactly the pattern-derived result: its matches, maxNsfwScore and       *)
(* categories, the flags the thresholds give, nsfwChecked and              *)
(* detectedByNSFW false; no feedback is enqueued.                          *)
(***************************************************************************)
C9_ClassifierErrorKeepsPatternResult ==
    \A c \in Callers :
       (calls[c].pc = "done" /\ calls[c].clsFailed)
          => /\ calls[c].err = "nil"
             /\ calls[c].res.matches = calls[c].patRes.matches
             /\ calls[c].res.matches
                   \in {<<>>, Search(acPatterns, NormalizeText(calls[c].text))}
             /\ calls[c].res.maxNsfwScore = MaxScore(calls[c].res.matches)
             /\ calls[c].res.categories =
                   {calls[c].res.matches[i].category :
                       i \in 1..Len(calls[c].res.matches)}
             /\ calls[c].res.isClean = (calls[c].res.matches = <<>>)
             /\ calls[c].res.shouldReject =
                   (calls[c].res.maxNsfwScore >= RejectThreshold)
             /\ calls[c].res.shouldReview =
                   (/\ calls[c].res.maxNsfwScore < RejectThreshold
                    /\ calls[c].res.maxNsfwScore >= ReviewThreshold)
             /\ ~calls[c].res.nsfwChecked
             /\ ~calls[c].res.detectedByNSFW
             /\ calls[c].res.detectedPhrases = <<>>
             /\ ~calls[c].enq
             /\ ~calls[c].fb

\* The classifier failed after the matcher found a phrase of review
\* severity.
C9_Witness ==
    /\ calls[1].pc = "done"
    /\ calls[1].clsFailed
    /\ calls[1].res.matches # <<>>
    /\ calls[1].res.shouldReview

(***************************************************************************)
(* C10.  When the request context is cancelled while Moderate is at a      *)
(* suspension point, Moderate returns a cancellation error instead of a    *)
(* verdict.                                                                *)
(***************************************************************************)
C10_CancelReturnsError ==
    \A c \in Callers :
       (calls[c].pc = "done" /\ calls[c].cancelled)
          => calls[c].err = "cancelled"

(***************************************************************************)
(* C11.  For a fixed contentHash the category of the stored entry never    *)
(* moves to a less severe value under Moderate writebacks: no step of any  *)
(* interleaving of Moderate calls replaces a repository row or an L1 entry *)
(* of category unsafe by one of category controversial or safe.            *)
(***************************************************************************)
C11_CategoryOnlyWorsens ==
    [][/\ \A k \in L2Keys :
             l2[k].category = "unsafe" => l2'[k].category = "unsafe"
       /\ \A k \in L1Keys :
             l1[k].category = "unsafe" => l1'[k].category = "unsafe"]_vars

(***************************************************************************)
(* C12.  When two Moderate calls on the same uncached text have raced,     *)
(* decided different categories and both finished with their writebacks    *)
(* done, every later Moderate of that text (no store failure, whatever the *)
(* classifier would answer) returns the category of the repository row,    *)
(* which is the category of the upsert that landed last.                   *)
(***************************************************************************)
C12_LastRepositoryWriterWins ==
    \A t \in RaceTexts :
       (/\ \A c \in Callers :
              /\ calls[c].pc = "done"
              /\ calls[c].text = t
              /\ ~calls[c].res.cacheHit
              /\ calls[c].dbSaved
              /\ ~calls[c].wbFailed
        /\ resultToCategory(calls[1].res) # resultToCategory(calls[2].res))
       => \A resp \in Responses :
             resultToCategory(ModerateOutcome(t, resp))
                = l2[ContentHashHex(t)].category

\* What Search and HasMatch return on the automaton built from each
\* pattern list, for each text searched.
SearchOn ==
    [patterns \in PatternLists \cup {<<>>} |->
        [text \in SearchTexts |-> Search(patterns, text)]]

HasMatchOn ==
    [patterns \in PatternLists \cup {<<>>} |->
        [text \in SearchTexts |-> HasMatch(patterns, text)]]

(***************************************************************************)
(* C13.  A Search or HasMatch that runs concurrently with Build works on   *)
(* one complete automaton: the trie it took at its start was completely    *)
(* built from a pattern list given to Build (or is the initial, empty      *)
(* one), every node it visits belongs to that trie, which no Build changes *)
(* meanwhile, and it returns what that automaton yields for its text.      *)
(***************************************************************************)
C13_SearchSeesOneCompleteAutomaton ==
    \A s \in Searchers :
       LET me == search[s]
       IN /\ me.pc # "idle" =>
                /\ me.auto.complete
                /\ me.auto.patterns \in PatternLists \cup {<<>>}
          /\ me.pc \in {"loop", "return"} => tries[me.node.gen] = me.auto
          /\ me.pc = "done" /\ me.kind = "Search" =>
                me.matches = SearchOn[me.auto.patterns][me.text]
          /\ me.pc = "done" /\ me.kind = "HasMatch" =>
                me.found = HasMatchOn[me.auto.patterns][me.text]

\* A search that found matches on the old automaton while a Build call
\* was waiting, after which the rebuild took place.
C13_Witness ==
    \E s \in Searchers :
       /\ search[s].pc = "done"
       /\ search[s].overlap
       /\ search[s].matches # <<>>
       /\ tries[acRoot].complete
       /\ tries[acRoot] # search[s].auto

\* Match m stands for pattern entry p.
IsMatchOf(m, p) ==
    m.word = p.word /\ m.category = p.category /\ m.nsfwScore = p.nsfwScore

\* The index of the text at which Search appended m: Search sets Position
\* to that index - len([]rune(pattern.Word)) + 1.
EndOf(m) == m.position + Len(m.word) - 1

\* The normalized pattern of entry p occurs in text with its last code
\* point at index end (counted from 0) of the normalized text.
OccursEndingAt(p, text, end) ==
    OccursAt(NormalizeText(p.word), NormalizeText(text),
             end - Len(NormalizeText(p.word)) + 2)

(***************************************************************************)
(* C14.  Search returns exactly one match for every (pattern entry, end    *)
(* position) at which the normalized pattern occurs in the normalized      *)
(* text, suffixes of other matched patterns included, and no match for a   *)
(* pair that is not an occurrence.  A match is attributed to the end       *)
(* position at which Search appended it, whatever its Position field.      *)
(***************************************************************************)
C14_SearchReturnsTheOccurrences ==
    \A s \in Searchers :
       (search[s].pc = "done" /\ search[s].kind = "Search") =>
          LET me == search[s]
              patterns == me.auto.patterns
          IN \A i \in 1..Len(patterns) :
                \A end \in 0..(Len(NormalizeText(me.text)) - 1) :
                   Cardinality({k \in 1..Len(me.matches) :
                                   /\ IsMatchOf(me.matches[k], patterns[i])
                                   /\ EndOf(me.matches[k]) = end})
                      = IF OccursEndingAt(patterns[i], me.text, end) THEN 1 ELSE 0

(***************************************************************************)
(* C15.  HasMatch(text) is true exactly when Search(text) returns at least *)
(* one match; with an empty pattern set HasMatch returns false and Search  *)
(* returns the empty list.                                                 *)
(***************************************************************************)
C15_HasMatchIffSearchFinds ==
    \A s \in Searchers :
       search[s].pc = "done" =>
          /\ search[s].kind = "HasMatch" =>
                (search[s].found <=>
                    SearchOn[search[s].auto.patterns][search[s].text] # <<>>)
          /\ search[s].auto.patterns = <<>> =>
                ~search[s].found /\ search[s].matches = <<>>

\* A HasMatch that returned true on "x8", whose only matches are those of
\* a suffix pattern reached over a failure link, and a finished call on
\* the empty pattern set.
C15_Witness ==
    /\ \E s \in Searchers :
          /\ search[s].pc = "done"
          /\ search[s].kind = "HasMatch"
          /\ search[s].found
          /\ search[s].text = <<"x", "8">>
    /\ \E s \in Searchers :
          search[s].pc = "done" /\ search[s].auto.patterns = <<>>

(***************************************************************************)
(* C16.  Every match returned by Search carries as Position the index, in  *)
(* code points of the normalized text, of the first code point of the      *)
(* occurrence: Position >= 0 and the normalized pattern is the slice of    *)
(* the normalized text that starts at Position.                            *)
(***************************************************************************)
C16_PositionIsStartOfOccurrence ==
    \A s \in Searchers :
       (search[s].pc = "done" /\ search[s].kind = "Search") =>
          \A m \in Range(search[s].matches) :
             /\ m.position >= 0
             /\ OccursAt(NormalizeText(m.word), NormalizeText(search[s].text),
                         m.position + 1)

(***************************************************************************)
(* C17.  NormalizeText is idempotent: normalizing a normalized text gives  *)
(* the same text.                                                          *)
(***************************************************************************)
C17_NormalizeIdempotent == NormalizeText(nz.out) = nz.out

\* A text with an upper-case letter, a leet sign and a combining mark has
\* been normalized.
C17_Witness ==
    /\ {"B", "$", "cmb"} \subseteq Range(nz.text)
    /\ nz.out = <<"b", "s">>

(***************************************************************************)
(* C18.  Once an image with pHash h has been classified unsafe and saved,  *)
(* every later ModerateImageURL of an image whose pHash is h is rejected   *)
(* through the cache-hit path, without a classifier call.  The statement   *)
(* is taken for the later calls that computed the pHash.                   *)
(***************************************************************************)
C18_KnownUnsafeImageHitsCache ==
    (img.pc = "done" /\ img.late /\ img.hashed) =>
       /\ img.res.cacheHit
       /\ img.res.shouldReject
       /\ ~img.clsCalled

(***************************************************************************)
(* C19.  ModerateImageURLs keeps a slice of the length of urls in which    *)
(* slot i is nil or the result of moderating urls[i], stored for the job   *)
(* of index i; and no slot that holds a result is written again.           *)
(***************************************************************************)
C19_SlotsFollowInputOrder ==
    /\ [](/\ Len(results) = Len(producer.urls)
          /\ \A i \in 1..Len(results) :
                \/ results[i] = NilSlot
                \/ /\ results[i].index = i - 1
                   /\ results[i].of = producer.urls[i])
    /\ [][\A i \in 1..Len(results) :
             results[i] # NilSlot => results'[i] = results[i]]_vars

\* A returned call of three URLs with a nil slot and results stored by two
\* workers.
C19_Witness ==
    /\ producer.pc = "done"
    /\ Len(results) = 3
    /\ \E i \in 1..3 : results[i] = NilSlot
    /\ \E i, j \in 1..3 :
          /\ results[i] # NilSlot
          /\ results[j] # NilSlot
          /\ results[i].by # results[j].by

(***************************************************************************)
(* C20.  ModerateImageURLs always terminates, also when the context is     *)
(* cancelled while jobs remain to be sent: a call that has not returned    *)
(* can always take a step (its loops are bounded by the URLs and the       *)
(* workers, so a call that can always step returns).                       *)
(***************************************************************************)
C20_CallNeverBlocks ==
    producer.pc \in {"idle", "done"} \/ ENABLED PoolStep

(***************************************************************************)
(* C23.  ModerationUsecase.Moderate starts the text pipeline at most once  *)
(* per request, when it is entered and so before any image; it moderates   *)
(* the image URLs one at a time in input order, an iteration that ends     *)
(* with an error goes on to the next URL without failing the request, the  *)
(* loop ends at the first result with shouldReject so that the URLs after  *)
(* it are not moderated, and the videos are taken only when the image loop *)
(* has ended.                                                              *)
(***************************************************************************)
C23_TextThenImagesThenVideos ==
    /\ [](/\ uc.pc = "text" => uc.imagesDone = 0
          /\ uc.pc = "images" =>
                /\ uc.images = uc.nImages - uc.imagesDone
                /\ uc.images > 0
                /\ uc.imageResult # NilResult => ~uc.imageResult.shouldReject
          /\ uc.pc \in {"videos", "verdict", "done"} =>
                \/ uc.imagesDone = uc.nImages
                \/ uc.imageResult # NilResult /\ uc.imageResult.shouldReject
                \/ uc.err # "nil"
          /\ uc.pc = "videos" => uc.images = 0)
    /\ [][/\ nCalls' # nCalls =>
                /\ nCalls' = nCalls + 1
                /\ uc.pc \in {"idle", "done"}
                /\ uc'.pc \in {"text", "done"}
                /\ uc'.imagesDone = 0
          /\ (uc.pc = "text" /\ uc'.pc # "text") => uc'.imagesDone = 0
          /\ (uc.pc = "images" /\ uc' # uc) =>
                /\ uc'.imagesDone = uc.imagesDone + 1
                /\ uc'.pc \in {"images", "videos", "verdict"}
                /\ uc'.err = "nil"
                /\ uc'.textResult = uc.textResult
          /\ (uc.pc \in {"videos", "verdict"} /\ uc' # uc) =>
                /\ uc'.imagesDone = uc.imagesDone
                /\ uc'.pc \in {"videos", "verdict", "done"}]_vars

\* A request with a text and two image URLs ended after the first image,
\* whose result asked to reject; the second URL was not moderated.
C23_Witness ==
    /\ uc.pc = "done"
    /\ uc.err = "nil"
    /\ uc.textResult # NilResult
    /\ uc.nImages = 2
    /\ uc.imagesDone = 1
    /\ uc.imageResult # NilResult
    /\ uc.imageResult.shouldReject

(***************************************************************************)
(* C24.  A cache hit ends Moderate.  When the L1 read finds an envelope    *)
(* the call returns it with cacheHit = true and no store is touched; when  *)
(* L1 misses and the repository has a row, the envelope made from the row  *)
(* is written to L1 (unless the KV write fails) and returned with cacheHit *)
(* = true.  In both cases the call made no Bloom check, no pattern search, *)
(* no classifier call, no feedback and no repository write.                *)
(***************************************************************************)
C24_CacheHitEndsPipeline ==
    /\ [](\A c \in Callers :
            /\ (calls[c].pc = "done" /\ calls[c].res.cacheHit) =>
                  /\ ~calls[c].bloomFailed
                  /\ calls[c].patRes = DefaultResult
                  /\ ~calls[c].clsCalled
                  /\ ~calls[c].enq
                  /\ ~calls[c].fb
                  /\ ~calls[c].dbSaved
                  /\ ~calls[c].wbFailed
                  /\ calls[c].err = "nil"
            /\ calls[c].pc = "l2wt" => calls[c].entry # NoEntry)
    /\ [][\A c \in Callers :
            LET key == ContentHashHex(calls[c].text)
            IN /\ (calls[c].pc = "l1" /\ calls'[c].pc # "l1") =>
                     /\ <<l1, l2, bloom, acPatterns>>' = <<l1, l2, bloom, acPatterns>>
                     /\ l1[key] # NoEntry =>
                           \/ /\ calls'[c].pc = "done"
                              /\ calls'[c].res = cacheEntryToResult(l1[key])
                              /\ calls'[c].res.cacheHit
                           \/ calls'[c].readFailed
                     /\ l1[key] = NoEntry => calls'[c].pc = "l2"
               /\ (calls[c].pc = "l2" /\ calls'[c].pc # "l2") =>
                     /\ <<l1, l2, bloom, acPatterns>>' = <<l1, l2, bloom, acPatterns>>
                     /\ l2[key] # NoRow =>
                           \/ /\ calls'[c].pc = "l2wt"
                              /\ calls'[c].entry = dbCacheToEntry(l2[key])
                           \/ calls'[c].readFailed
                     /\ l2[key] = NoRow => calls'[c].pc = "bloom"
               /\ (calls[c].pc = "l2wt" /\ calls'[c].pc # "l2wt") =>
                     /\ calls'[c].pc = "done"
                     /\ calls'[c].res = cacheEntryToResult(calls[c].entry)
                     /\ calls'[c].res.cacheHit
                     /\ <<l2, bloom, acPatterns>>' = <<l2, bloom, acPatterns>>
                     /\ l1' \in {l1, [l1 EXCEPT ![key] = calls[c].entry]}
               /\ (calls'[c].pc = "done" /\ calls[c].pc # "done"
                      /\ calls'[c].res.cacheHit) =>
                     calls[c].pc \in {"l1", "l2wt"}]_vars

\* A call that missed L1, found the row in the repository, wrote the
\* envelope through to L1 and returned it.
C24_Witness ==
    /\ calls[1].pc = "done"
    /\ calls[1].res.cacheHit
    /\ calls[1].entry # NoEntry
    /\ ~calls[1].readFailed
    /\ l1[ContentHashHex(calls[1].text)] = calls[1].entry

(***************************************************************************)
(* C25.  When the image cannot be downloaded or decoded (the pHash cannot  *)
(* be computed), ModerateImageURL returns the error ImageUnavailable: the  *)
(* classifier is not called and nothing is written back.                   *)
(***************************************************************************)
C25_UnavailableImageFails ==
    (img.pc = "done" /\ ~img.hashed) =>
       /\ img.err = "ImageUnavailable"
       /\ ~img.clsCalled
       /\ ~img.saved
       /\ ~img.bloomAdded

(***************************************************************************)
(* C26.  When the image classifier call fails, ModerateImageURL returns a  *)
(* nil error and the clean default result (isClean, not shouldReject,      *)
(* nsfwScore 0, no categories), and the call writes nothing: the           *)
(* repository and the image Bloom filter are as the call found them.       *)
(***************************************************************************)
C26_ImageClassifierErrorIsClean ==
    /\ []((img.pc = "done" /\ img.clsFailed) =>
            /\ img.err = "nil"
            /\ img.res.isClean
            /\ ~img.res.shouldReject
            /\ img.res.nsfwScore = 0
            /\ img.res.categories = {}
            /\ ~img.res.cacheHit
            /\ ~img.saved
            /\ ~img.bloomAdded)
    /\ [][/\ (img.pc = "detect" /\ img'.clsFailed) => img'.pc = "done"
          /\ <<badImages, imgBloom>>' # <<badImages, imgBloom>> =>
                /\ img.pc \in {"save", "bloomadd"}
                /\ ~img.clsFailed]_vars

\* A call whose image was hashed and whose classifier call failed returned.
C26_Witness ==
    /\ img.pc = "done"
    /\ img.hashed
    /\ img.clsCalled
    /\ img.clsFailed

(***************************************************************************)
(* C27.  After a ModerateImageURL call that computed the pHash, reached    *)
(* the classifier and got an answer, the repository holds a row for the    *)
(* pHash with the decided category, whether the verdict is safe or unsafe, *)
(* and the call added the pHash to the image Bloom filter exactly when the *)
(* verdict is unsafe.                                                      *)
(***************************************************************************)
C27_EveryVerdictIsWrittenBack ==
    (img.pc = "done" /\ img.hashed /\ img.clsCalled /\ ~img.clsFailed) =>
       /\ img.saved
       /\ badImages[img.phash] = (IF img.res.shouldReject THEN "nsfw" ELSE "safe")
       /\ img.bloomAdded <=> img.res.shouldReject

(***************************************************************************)
(* C21: feedback runs detached from the moderation call.  Moderate does    *)
(* not wait for the callback: at each step of its writeback the call can   *)
(* go on whatever the feedback goroutines do, and a step of a goroutine    *)
(* (the callback returning nil or an error, or timing out) changes no      *)
(* call, no result and no cache.  The callback's context is not the        *)
(* request's: no goroutine ends because the request was cancelled.  Every  *)
(* call returns a nil error.                                               *)
(***************************************************************************)
C21_FeedbackRunsDetached ==
    /\ [](/\ \A i \in 1..Len(fbTasks) : fbTasks[i].state # "cancelled"
          /\ \A c \in Callers :
               /\ calls[c].pc = "savedb" => ENABLED SaveDB(c)
               /\ calls[c].pc = "savel1" => ENABLED SaveL1(c)
               /\ calls[c].pc = "done" => calls[c].err = "nil")
    /\ [][(\E i \in 1..Len(fbTasks) : fbTasks'[i].state # fbTasks[i].state)
            => /\ calls' = calls
               /\ l1' = l1
               /\ l2' = l2]_vars

\* Moderate has returned its flagged verdict after its request context was
\* cancelled, while the goroutine it started still runs the callback.
C21_Witness ==
    /\ calls[1].pc = "done"
    /\ calls[1].fb
    /\ calls[1].cancelled
    /\ calls[1].res.detectedByNSFW
    /\ fbTasks # <<>>
    /\ fbTasks[Len(fbTasks)].by = 1
    /\ fbTasks[Len(fbTasks)].state = "running"

(***************************************************************************)
(* C22: no operation holds TextModerator.mu or AhoCorasick.mu while it is  *)
(* at a suspension point: while the admin waits for a KV or a repository   *)
(* call, and while a Moderate call waits for a store or the classifier,    *)
(* neither lock is held.                                                   *)
(***************************************************************************)
C22_NoLockAcrossSuspension ==
    (\/ admin.pc \in AdminSuspended
     \/ \E c \in Callers : calls[c].pc \notin {"idle", "done"})
    => /\ ~tmMu.writer
       /\ tmMu.readers = {}
       /\ ~acMu.writer
       /\ acMu.readers = {}

(***************************************************************************)
(* C28: once AddBadWord(word, category, nsfwScore) has returned without    *)
(* error, the text Bloom holds the hash of the normalized word and, for a  *)
(* word of several tokens, of each normalized token, and the repository    *)
(* holds under HashTextSha256(word) a row for the word whose category is   *)
(* an unsafe one (not "safe") and whose expiry is unset.                   *)
(***************************************************************************)
C28_AddBadWordStoresUnsafeEntry ==
    (admin.pc = "done" /\ admin.op = "AddBadWord" /\ admin.err = "nil")
    => LET word == admin.word.word
           row == l2[HashTextSha256(word)]
       IN /\ Exists(bloom, HashTextSha256(NormalizeText(word)))
          /\ Len(tokenize(word)) > 1
               => \A i \in 1..Len(tokenize(word)) :
                    Exists(bloom, HashTextSha256(NormalizeText(tokenize(word)[i])))
          /\ row # NoRow
          /\ row.normalizedContent = word
          /\ row.category # "safe"
          /\ row.expiresAt = "null"

\* The keys of the rows a word list is built from: those whose category is
\* not "safe".
NonSafeKeys(rows) ==
    {k \in L2Keys : rows[k] # NoRow /\ rows[k].category # "safe"}

(***************************************************************************)
(* C29: once ModerationUsecase.RebuildFilters has returned without error,  *)
(* the automaton holds exactly the rows of the repository, as ListAll      *)
(* returned them, whose category is not "safe": one pattern per such row   *)
(* with its word, category and score, and no other pattern, whatever an    *)
(* earlier build held.  The Bloom contains the hash of each of these       *)
(* phrases and of each token of those with several tokens, and the count   *)
(* returned is the number of these rows.  The rows are those of the        *)
(* repository itself unless a Moderate call wrote one since ListAll.       *)
(***************************************************************************)
C29_RebuildMatchesRepository ==
    /\ [](admin.pc = "done" /\ admin.op = "RebuildFilters" /\ admin.err = "nil"
          => LET keys == NonSafeKeys(admin.rows)
             IN /\ Len(acPatterns) = Cardinality(keys)
                /\ \A k \in keys :
                     Cardinality({i \in 1..Len(acPatterns) :
                         acPatterns[i] =
                            [word |-> admin.rows[k].normalizedContent,
                             category |-> admin.rows[k].category,
                             nsfwScore |-> admin.rows[k].nsfwScore]})
                       = Cardinality({j \in keys : admin.rows[j] = admin.rows[k]})
                /\ \A k \in keys :
                     LET word == admin.rows[k].normalizedContent
                     IN /\ Exists(bloom, HashTextSha256(NormalizeText(word)))
                        /\ Len(tokenize(word)) > 1
                             => \A i \in 1..Len(tokenize(word)) :
                                  Exists(bloom,
                                         HashTextSha256(NormalizeText(tokenize(word)[i])))
                /\ admin.count = Cardinality(keys)
                /\ ~tmMu.writer)
    /\ [][admin.pc = "list" /\ admin'.pc = "build" => admin'.rows = l2]_vars
    /\ [][admin.pc \in {"build", "rebloom"} /\ admin'.pc = "done"
             /\ (\A c \in Callers : calls[c].pc \in {"idle", "done"})
             /\ admin'.err = "nil" /\ l2 = admin.rows
          => Len(acPatterns') = Cardinality(NonSafeKeys(l2'))]_vars

\* RebuildFilters has returned the count of a repository that holds a
\* phrase of two tokens, which is now a pattern, its tokens in the Bloom.
C29_Witness ==
    /\ admin.pc = "done"
    /\ admin.op = "RebuildFilters"
    /\ admin.err = "nil"
    /\ admin.count >= 1
    /\ \E i \in 1..Len(acPatterns) :
         /\ Len(tokenize(acPatterns[i].word)) > 1
         /\ Exists(bloom, HashTextSha256(NormalizeText(tokenize(acPatterns[i].word)[1])))

(***************************************************************************)
(* C30: after RemoveBadWord(w) succeeded, and as long as no Moderate call  *)
(* has started since, the row stored for w is gone and no cache layer      *)
(* holds an entry a Moderate(w) would be answered from; once a             *)
(* RebuildFilters has succeeded after the removal, no pattern of the       *)
(* automaton is w; the Bloom bits of w are still set.                      *)
(***************************************************************************)
C30_RemovalTakesEffect ==
    (admin.gone # NoGone /\ nCalls = admin.gone.at)
    => LET w == admin.gone.word
           key == ContentHashHex(w)
       IN /\ l2[HashTextSha256(w)] = NoRow
          /\ key \in L1Keys => l1[key] = NoEntry /\ l2[key] = NoRow
          /\ admin.gone.rebuilt
               => \A i \in 1..Len(acPatterns) :
                    NormalizeText(acPatterns[i].word) # NormalizeText(w)
          /\ admin.gone.bloomed
               => Exists(bloom, HashTextSha256(NormalizeText(w)))

(***************************************************************************)
(* C31: on a cache miss for a non-empty text, Moderate asks the classifier *)
(* exactly once when a classifier is configured and the score of the       *)
(* pattern match is below rejectThreshold, and never otherwise.  A call    *)
(* waits for the classifier only in that case and has not asked it yet;    *)
(* past step 5 it has asked iff the case held; and the classifier is       *)
(* asked by no step but the one that leaves step 5.                        *)
(***************************************************************************)
C31_ClassifierCalledOnceWhenNeeded ==
    /\ [](\A c \in Callers :
            LET call == calls[c]
                needed == nsfwTextClient /\ call.patRes.maxNsfwScore < RejectThreshold
            IN /\ call.pc = "classify" => needed /\ ~call.clsCalled
               /\ (\/ call.pc \in {"savedb", "savel1"}
                   \/ call.pc = "done" /\ ~call.res.cacheHit /\ call.text # <<>>)
                    => (call.clsCalled <=> needed)
               /\ call.pc \in {"l1", "l2", "l2wt", "bloom"} => ~call.clsCalled)
    /\ [][\A c \in Callers :
            calls'[c].clsCalled /\ ~calls[c].clsCalled
              => calls[c].pc = "classify" /\ calls'[c].pc = "savedb"]_vars

\* A call on a text the patterns score below rejectThreshold has returned
\* its computed result without the classifier, none being configured.
C31_Witness ==
    /\ ~nsfwTextClient
    /\ calls[1].pc = "done"
    /\ ~calls[1].res.cacheHit
    /\ calls[1].patRes.matches # <<>>
    /\ calls[1].patRes.maxNsfwScore < RejectThreshold
    /\ ~calls[1].clsCalled

(***************************************************************************)
(* C32: the flags follow from the classifier's label alone.  Whenever the  *)
(* classifier call of a Moderate succeeded, the result returned has        *)
(* shouldReject set if the label was Unsafe in any letter case and         *)
(* shouldReview set if it was Controversial, whatever is_nsfw was; with    *)
(* the label Safe the classifier step sets no flag: the flags are those    *)
(* of the severity override of the pattern result.                         *)
(***************************************************************************)
C32_LabelDeterminesFlags ==
    \A c \in Callers :
       LET call == calls[c]
       IN (call.pc = "done" /\ call.clsCalled /\ ~call.clsFailed)
          => /\ LowerLabel(call.resp.safetyLabel) = "unsafe"
                  => call.res.shouldReject
             /\ LowerLabel(call.resp.safetyLabel) = "controversial"
                  => call.res.shouldReview
             /\ LowerLabel(call.resp.safetyLabel) = "safe"
                  => /\ call.res.shouldReject
                          = SeverityOverride(call.patRes).shouldReject
                     /\ call.res.shouldReview
                          = SeverityOverride(call.patRes).shouldReview

(***************************************************************************)
(* C33: the category Moderate writes back is a function of the final       *)
(* flags: "unsafe" when shouldReject is set, otherwise "controversial"     *)
(* when shouldReview is set, otherwise "safe", in the repository row and   *)
(* in the L1 envelope alike.  shouldReject is set only by the classifier's *)
(* label Unsafe or by a pattern score of at least rejectThreshold,         *)
(* shouldReview only by the label Controversial or by a score of at least  *)
(* reviewThreshold; the severity override clears no flag the classifier    *)
(* set, and a result with both flags is written as "unsafe".               *)
(***************************************************************************)
C33_CategoryFollowsFinalFlags ==
    /\ [](\A c \in Callers :
            LET call == calls[c]
                answered == call.clsCalled /\ ~call.clsFailed
                byClassifier == ApplyClassifier(call.patRes, call.text, call.resp)
            IN (call.pc \in {"savedb", "savel1"})
               => /\ call.res.shouldReject
                       => \/ answered /\ LowerLabel(call.resp.safetyLabel) = "unsafe"
                          \/ call.res.maxNsfwScore >= RejectThreshold
                  /\ call.res.shouldReview
                       => \/ answered
                             /\ LowerLabel(call.resp.safetyLabel) = "controversial"
                          \/ call.res.maxNsfwScore >= ReviewThreshold
                  /\ call.res.maxNsfwScore >= RejectThreshold => call.res.shouldReject
                  /\ (call.res.maxNsfwScore >= ReviewThreshold
                        /\ call.res.maxNsfwScore < RejectThreshold)
                       => call.res.shouldReview
                  /\ answered /\ byClassifier.shouldReject => call.res.shouldReject
                  /\ answered /\ byClassifier.shouldReview => call.res.shouldReview)
    /\ [][\A c \in Callers :
            LET res == calls[c].res
                key == ContentHashHex(calls[c].text)
                category == IF res.shouldReject THEN "unsafe"
                            ELSE IF res.shouldReview THEN "controversial"
                            ELSE "safe"
            IN /\ (calls[c].pc = "savedb" /\ calls'[c].dbSaved)
                    => l2'[key].category = category
               /\ (calls[c].pc = "savel1" /\ calls'[c].pc = "done")
                    => /\ l1'[key] # l1[key] => l1'[key].category = category
                       /\ ~calls'[c].wbFailed => l1'[key].category = category]_vars

\* A result the patterns put to review and the classifier to reject has
\* been written back, row and envelope, as "unsafe".
C33_Witness ==
    /\ calls[1].pc = "done"
    /\ ~calls[1].res.cacheHit
    /\ calls[1].res.shouldReject
    /\ calls[1].res.shouldReview
    /\ calls[1].dbSaved
    /\ ~calls[1].wbFailed
    /\ l2[ContentHashHex(calls[1].text)].category = "unsafe"
    /\ l1[ContentHashHex(calls[1].text)].category = "unsafe"

(***************************************************************************)
(* C40: every result Moderate returns, computed on a cache miss or served  *)
(* from L1 or from L2, is not clean when shouldReject or shouldReview is   *)
(* set; so is every result a call is about to write back and every         *)
(* envelope in L1.                                                         *)
(***************************************************************************)
C40_FlaggedIsNotClean ==
    /\ \A c \in Callers :
         calls[c].pc \in {"savedb", "savel1", "done"}
           => (calls[c].res.shouldReject \/ calls[c].res.shouldReview
                 => ~calls[c].res.isClean)
    /\ \A k \in L1Keys :
         l1[k] # NoEntry
           => (l1[k].shouldReject \/ l1[k].shouldReview => ~l1[k].isClean)

\* A call has been answered from the repository row of a result the
\* patterns had put to review.
C40_Witness ==
    /\ calls[1].pc = "done"
    /\ calls[1].res.cacheHit
    /\ calls[1].entry # NoEntry
    /\ calls[1].res.shouldReview
    /\ ~calls[1].res.isClean
    /\ calls[1].res.maxNsfwScore >= ReviewThreshold

(***************************************************************************)
(* C38: a verdict survives the cache round trip.  When Moderate writes a   *)
(* result back, what a later Moderate of the text is answered with has     *)
(* the isClean, shouldReject and shouldReview of that result, from the L1  *)
(* envelope (cacheEntryToResult) and from the repository row               *)
(* (dbCacheToEntry, then cacheEntryToResult) alike.                        *)
(***************************************************************************)
C38_VerdictSurvivesCaches ==
    [][\A c \in Callers :
         LET res == calls[c].res
             key == ContentHashHex(calls[c].text)
             fromL1 == cacheEntryToResult(l1'[key])
             fromL2 == cacheEntryToResult(dbCacheToEntry(l2'[key]))
         IN /\ (calls[c].pc = "savedb" /\ calls'[c].dbSaved)
                 => /\ fromL2.isClean = res.isClean
                    /\ fromL2.shouldReject = res.shouldReject
                    /\ fromL2.shouldReview = res.shouldReview
            /\ (calls[c].pc = "savel1" /\ calls'[c].pc = "done"
                  /\ l1'[key] # l1[key])
                 => /\ fromL1.isClean = res.isClean
                    /\ fromL1.shouldReject = res.shouldReject
                    /\ fromL1.shouldReview = res.shouldReview]_vars

(***************************************************************************)
(* C37: a classifier outage does not make a text count as safe.  A call    *)
(* whose classifier call failed writes no "safe" entry for its text, to    *)
(* the repository or to L1, so that the next Moderate of the text is not   *)
(* answered from such an entry.                                            *)
(***************************************************************************)
C37_OutageWritesNoSafeEntry ==
    [][\A c \in Callers :
         LET key == ContentHashHex(calls[c].text)
         IN (calls[c].clsFailed /\ calls[c].pc \in {"savedb", "savel1"})
            => /\ l2'[key] # l2[key] => l2'[key].category # "safe"
               /\ l1'[key] # l1[key] => l1'[key].category # "safe"]_vars

(***************************************************************************)
(* C36: the Bloom prefilter never hides a matcher hit.  With the filters   *)
(* built by a RebuildFilters whose Bloom adds all succeeded, and in a call *)
(* none of whose reads and Bloom checks failed, a text that is not cached  *)
(* and for which AhoCorasick.Search on its normalization returns a match   *)
(* has the search run on it and comes back as not clean.                   *)
(***************************************************************************)
C36_PrefilterHidesNoMatch ==
    \A c \in Callers :
       (/\ calls[c].pc = "done"
        /\ calls[c].text # <<>>
        /\ ~calls[c].res.cacheHit
        /\ ~calls[c].readFailed
        /\ ~calls[c].bloomFailed
        /\ \A i \in 1..Len(acPatterns) :
              Range(BloomItems(acPatterns[i].word)) \subseteq added
        /\ Search(acPatterns, NormalizeText(calls[c].text)) # <<>>)
          => /\ calls[c].patRes.matches
                  = Search(acPatterns, NormalizeText(calls[c].text))
             /\ ~calls[c].res.isClean

(***************************************************************************)
(* C35: Moderate looks a text up under the key AddBadWord stores a word    *)
(* under, the SHA-256 of the text.  When the repository holds the entry    *)
(* AddBadWord upserted for an already normalized word w, with a category   *)
(* other than "safe", the L2 lookup of Moderate(w), if it does not fail,   *)
(* finds that entry and the call goes on to return it as a cache hit.      *)
(***************************************************************************)
C35_ModerateFindsAddedEntry ==
    [][\A c \in Callers :
         LET t == calls[c].text
             key == HashTextSha256(t)
         IN (/\ calls[c].pc = "l2"
             /\ calls'[c].pc # "l2"
             /\ ~calls'[c].readFailed
             /\ NormalizeText(t) = t
             /\ key \in L2Keys
             /\ l2[key] # NoRow
             /\ l2[key].category # "safe")
            => /\ ContentHashHex(t) = key
               /\ calls'[c].pc = "l2wt"
               /\ calls'[c].entry = dbCacheToEntry(l2[key])]_vars

\* The workers that hold a job: taken from the channel and not yet done.
InFlight == {w \in PoolWorkers : workers[w].pc \in {"select", "moderate"}}

(***************************************************************************)
(* C34: during ModerateImageURLs at most workerCount image moderations are *)
(* in flight, workerCount being config.Workers, or 4 when that is not      *)
(* positive, and as many workers were started.  No job waits in the        *)
(* channel: each send hands its job, the next URL, to a worker that        *)
(* receives it in the same step, so the producer cannot send while every   *)
(* worker is busy.                                                         *)
(***************************************************************************)
C34_PoolIsBounded ==
    /\ [](producer.pc # "idle"
          => /\ producer.workerCount
                  = (IF producer.configured <= 0 THEN 4 ELSE producer.configured)
             /\ Cardinality({w \in PoolWorkers : workers[w].pc # "off"})
                  = producer.workerCount
             /\ Cardinality(InFlight) <= producer.workerCount
             /\ \A v, w \in InFlight :
                  v # w => workers[v].job.index # workers[w].job.index
             /\ \A w \in InFlight : workers[w].job.index < producer.i - 1)
    /\ [][producer'.i # producer.i /\ producer.pc = "push"
          => /\ producer'.i = producer.i + 1
             /\ Cardinality(InFlight) < producer.workerCount
             /\ \E w \in PoolWorkers :
                  /\ w \notin InFlight
                  /\ workers'[w].pc = "select"
                  /\ workers'[w].job = [index |-> producer.i - 1,
                                        url |-> producer.urls[producer.i]]]_vars

\* Every worker of a pool of two holds a job while the producer has a URL
\* left to send.
C34_Witness ==
    /\ producer.pc = "push"
    /\ producer.workerCount = 2
    /\ Cardinality(InFlight) = 2
    /\ producer.i <= Len(producer.urls)
    /\ ~ENABLED (\E w \in PoolWorkers : PoolSend(w))

\* Concurrent calls at the two locks of the text path.
NextLocks ==
    \/ \E g \in Goroutines : CallModerate(g)
    \/ \E g \in Goroutines : CallRebuildFilters(g)
    \/ \E g \in Goroutines : CallSetFeedbackCallback(g)
    \/ \E g \in Goroutines : CallAddWord(g)
    \/ \E g \in Goroutines : AddWordReturns(g)
    \/ \E g \in Goroutines : SearchRLock(g)
    \/ \E g \in Goroutines : SearchRUnlock(g)
    \/ \E g \in Goroutines : PredictReturns(g)
    \/ \E g \in Goroutines : EnqueueRLock(g)
    \/ \E g \in Goroutines : EnqueueRUnlock(g)
    \/ \E g \in Goroutines : TmLockPending(g)
    \/ \E g \in Goroutines : TmLock(g)
    \/ \E g \in Goroutines : AcLockPending(g)
    \/ \E g \in Goroutines : AcLock(g)
    \/ \E g \in Goroutines : AcUnlock(g)
    \/ \E g \in Goroutines : TmUnlock(g)

SpecLocks == Init /\ [][NextLocks]_vars

\* The Go scheduler runs every goroutine that can run, and sync.RWMutex
\* passes no waiter over for ever: a released lock goes to the goroutines
\* that wait for it, and a waiting writer keeps new readers out.
FairLocks ==
    /\ SpecLocks
    /\ \A g \in Goroutines : WF_vars(Proceed(g)) /\ SF_vars(Acquire(g))

(***************************************************************************)
(* C39: TextModerator.mu and AhoCorasick.mu never deadlock.  In every      *)
(* interleaving of concurrent Moderate, RebuildFilters, AddWord and        *)
(* SetFeedbackCallback calls some running call can always take a step, a   *)
(* call returns, so that none waits for a lock for ever, and when          *)
(* RebuildFilters returns both locks are free of it: a Moderate that       *)
(* waited for tm.mu behind it can take the read lock unless another        *)
(* writer has asked for the lock meanwhile.                                *)
(***************************************************************************)
C39_LocksNeverDeadlock ==
    /\ []((\E g \in Goroutines : lk[g].pc # "idle")
          => ENABLED (\E g \in Goroutines : Acquire(g) \/ Proceed(g)))
    /\ [][\A h \in Goroutines :
            lk[h].op = "RebuildFilters" /\ lk'[h].pc = "idle"
            => /\ ~tmMu'.writer /\ ~acMu'.writer
               /\ CanRLock(tmMu') \/ tmMu'.pending]_vars
    /\ \A g \in Goroutines : lk[g].pc # "idle" ~> lk[g].pc = "idle"

\* RebuildFilters holds tm.mu and waits in Build for ac.mu, which a Moderate
\* holds in Search, while another Moderate waits for tm.mu in
\* enqueueFeedback.
C39_Witness ==
    \E g, h, k \in Goroutines :
        /\ lk[g].op = "RebuildFilters" /\ lk[g].pc = "acWait"
        /\ tmMu.writer
        /\ lk[h].pc = "searching" /\ h \in acMu.readers
        /\ lk[k].pc = "enqueue"

=============================================================================
